---- MODULE Spec2Model ----
(***************************************************************************)
(* A model of the CASC client of wow.export: the base class CASC           *)
(* (casc-source.ts, src/unnamed/part_001 lines 98-521) and its remote      *)
(* variant CASCRemote (casc-source-remote.js, lines 522-814).              *)
(*                                                                         *)
(* Conventions.                                                            *)
(*  - JavaScript runs one callback at a time: an action is one callback    *)
(*    (or one stretch of an async function between two awaits) together    *)
(*    with everything it calls synchronously.                              *)
(*  - Sequences are 1-based here and 0-based in the source.                *)
(*  - The value "undefined" stands for JavaScript's undefined, and Null    *)
(*    for null.                                                            *)
(*  - What the network and the disk answer is an input, drawn with \E.     *)
(***************************************************************************)
EXTENDS Integers, Sequences, FiniteSets, TLC

(***************************************************************************)
(* Bounds of the model.                                                    *)
(***************************************************************************)
\* Latencies a ping can report are 1..MaxPing.
MaxPing == 3
\* The archive list of a CDN config holds 1..MaxArchives keys.
MaxArchives == 2
\* getArchiveIndex calls made by other users of the shared index cache.
MaxDirect == 1
\* The longest archive list handed to the queue when only its fan-out is followed.
MaxKeys == 52
\* Changes of config.cascLocale in a run.
MaxChanges == 2
\* Calls of parseEncodingFile and parseRootFile on one client when the
\* parsers are followed alone.
MaxParses == 2
\* The longest key handed to formatCDNKey.
MaxKeyLen == 5
\* Changes of the configuration, or events of the configuration screen that
\* change something, in a run.
MaxEdits == 2
\* Items of a listbox.
MaxItems == 3
\* Clicks and key presses on a listbox in a run.
MaxEvents == 2

(***************************************************************************)
(* Program constants.                                                      *)
(***************************************************************************)
\* The fan-out limit loadArchives hands to generics.queue.
QueueLimit == 50
\* ContentFlags.LowViolence, the bit getFile and getValidRootEntries test.
LowViolence == 128
\* ContentFlags.NoNameHash
NoNameHash == 268435456
\* LocaleFlags.enUS, the fallback of the cascLocale watcher.
enUS == 2

Null == "null"
Undefined == "undefined"

(***************************************************************************)
(* Input domains.                                                          *)
(***************************************************************************)
\* Object.keys(constants.PRODUCTS), in key order.
ProductSeq == <<"wow", "wowt">>
Products == {ProductSeq[i] : i \in 1..Len(ProductSeq)}
\* The hosts of the server config entry (serverConfig.Hosts.split(' ')).
HostSeq == <<"h1", "h2", "h3">>
Hosts == {HostSeq[i] : i \in 1..Len(HostSeq)}
\* constants.PATCH.HOST formatted with the region.
PatchHost == "patch"
\* Archive keys a CDN config can list (numbered: key k stands for a hash).
ArchiveKeys == 1..MaxArchives
\* Content keys, encoding keys, file data ids.
RootCKey == "croot"
CKeys == {"c1", "c2", RootCKey}
FileDataIDs == {1, 2, 3}
\* Values of config.cascLocale: enUS and deDE (0x20).
Locales == {enUS, 32}

\* JavaScript values config.cascLocale can hold: a number, NaN, undefined, null.
Num(n) == [type |-> "number", num |-> n]
NaNValue == [type |-> "NaN", num |-> 0]
UndefinedValue == [type |-> "undefined", num |-> 0]
NullValue == [type |-> "null", num |-> 0]
LocaleValues == {Num(l) : l \in Locales} \cup {NaNValue, UndefinedValue, NullValue}
\* isNaN(v): whether Number(v) is NaN. Number(undefined) is NaN, Number(null) is 0.
isNaN(v) == v.type \in {"NaN", "undefined"}
\* The operand of & as a 32-bit integer: NaN, undefined and null give 0.
ToInt32(v) == IF v.type = "number" THEN v.num ELSE 0
\* A watcher callback that takes whatever value it is handed.
watchCascLocaleUnchecked(value) == value
\* The callback of the config.cascLocale watcher: the value this.locale gets.
watchCascLocale(value) == IF ~isNaN(value) THEN value ELSE Num(enUS)

Range(s) == {s[i] : i \in DOMAIN s}
Last(s) == s[Len(s)]
Min(a, b) == IF a < b THEN a ELSE b
Max(a, b) == IF a > b THEN a ELSE b
Abs(a) == IF a < 0 THEN 0 - a ELSE a
\* The numbers of a set, one after another.
RECURSIVE Ascending(_)
Ascending(S) ==
    IF S = {} THEN <<>>
    ELSE LET m == CHOOSE x \in S : \A y \in S : x <= y
         IN  <<m>> \o Ascending(S \ {m})

\* The & of two non-negative integers.
RECURSIVE BitAnd(_, _)
BitAnd(a, b) ==
    IF a = 0 \/ b = 0 THEN 0
    ELSE (a % 2) * (b % 2) + 2 * BitAnd(a \div 2, b \div 2)

\* Lists of 1..MaxArchives distinct archive keys.  Keys are interchangeable
\* hashes, so the lists are taken up to renaming of the keys.
ArchiveLists == {[i \in 1..n |-> i] : n \in 1..MaxArchives}

VARIABLES
    pc,            \* where the client is: "new", "init", "inited", a stage of load(), "loaded", "failed"
    step,          \* within a stage of load(): "step" (awaiting progress.step) or "wait" (awaiting the stage's requests)
    vc,            \* init(): the version-config promise of each product
    builds,        \* this.builds
    build,         \* this.build
    host,          \* this.host
    serverConfig,  \* this.serverConfig
    pings,         \* resolveCDNHost(): the ping promise of each host
    bestHost,      \* resolveCDNHost(): let bestHost
    cdnConfig,     \* this.cdnConfig
    buildConfig,   \* this.buildConfig
    archives,      \* this.archives
    queue,         \* generics.queue run by loadArchives
    calls,         \* getArchiveIndex calls, in flight or finished
    cache,         \* the index cache directory: key -> bytes of <key>.index, or Null
    net,           \* per archive key: downloads of its index started, cache writes done
    fetched,       \* archive keys for which a call that downloaded has completed
    encodingKeys,  \* this.encodingKeys
    rootEntries,   \* this.rootEntries
    rootTypes,     \* this.rootTypes
    encodingSizes, \* this.encodingSizes
    locale,        \* this.locale
    cascLocale,    \* config.cascLocale
    watcher,       \* the config.cascLocale watcher: subscribed, a run pending, changes so far, the value last handed to the callback, this.locale at cleanup()
    stageLog,      \* the stages of load() in the order they were started
    outcome,       \* per stage: what the stage's requests answered ("none" before)
    requests,      \* per stage: how many times the stage's first request was issued
    failedAt,      \* the stage whose failure rejected load(), or Null
    lookup,        \* the lookup call that has just returned, or NoLookup
    parsed,        \* the parser call that has just returned: its input, the tables it was called on, its outcome
    formatted,     \* the formatCDNKey call that has just returned: its key and its result
    config,        \* State.config: key -> value
    configEdit,    \* State.configEdit: key -> value
    heap,          \* the arrays that values of the configuration refer to
    saver,         \* isSaving, isQueued, the config watcher, setImmediate(doSave) callbacks pending, writes in flight, the file on disk
    ui,            \* the screen shown, the last toast, the events so far
    listbox,       \* a listbox component: its props, its data, the selection array it was given
    env            \* which part of the environment is explored in this run

vars == <<pc, step, vc, builds, build, host, serverConfig, pings, bestHost,
          cdnConfig, buildConfig, archives, queue, calls, cache, net, fetched,
          encodingKeys, encodingSizes, rootEntries, rootTypes, locale, stageLog, outcome,
          requests, failedAt, lookup, env, cascLocale, watcher, parsed,
          formatted, config, configEdit, heap, saver, ui, listbox>>
\* The CASC client, and what lives beside it.
clientVars == <<pc, step, vc, builds, build, host, serverConfig, pings, bestHost,
                cdnConfig, buildConfig, archives, queue, calls, cache, net, fetched,
                encodingKeys, encodingSizes, rootEntries, rootTypes, locale,
                stageLog, outcome, requests, failedAt, lookup, env, cascLocale,
                watcher, parsed>>
settingsVars == <<config, configEdit, heap, saver, ui>>
otherVars == <<formatted, config, configEdit, heap, saver, ui, listbox>>

(***************************************************************************)
(* Pure parts of the code.                                                 *)
(***************************************************************************)
\* load() with the encoding table parsed before the archives are indexed.
LoadStagesEncodingFirst ==
    <<"serverConfig", "resolveHost", "configs", "encoding", "archives",
      "root", "listfile">>
\* load() with the archives indexed after the root manifest.
LoadStagesArchivesLast ==
    <<"serverConfig", "resolveHost", "configs", "encoding", "root",
      "archives", "listfile">>
\* CASCRemote.load: the stages in the order load() awaits them.
LoadStages ==
    <<"serverConfig", "resolveHost", "configs", "archives", "encoding",
      "root", "listfile">>
Stages == Range(LoadStages)
StageIndex(s) == CHOOSE i \in DOMAIN LoadStages : LoadStages[i] = s
\* What load() does once stage s has returned: the next await, or its end.
NextStage(s) ==
    IF StageIndex(s) = Len(LoadStages) THEN "loaded"
    ELSE LoadStages[StageIndex(s) + 1]

\* CASCRemote.getConfig: a status other than 200 throws; else the parsed document.
getConfig(status, doc) == IF status /= 200 THEN "rejected" ELSE doc

\* init() without the test of result.status: one push per result.
RECURSIVE initBuildsAll(_, _)
initBuildsAll(results, i) ==
    IF i > Len(ProductSeq) THEN <<>>
    ELSE LET p == ProductSeq[i]
         IN  <<IF results[p] = "region" THEN p ELSE Undefined>>
                 \o initBuildsAll(results, i + 1)

\* CASCRemote.init, the loop over the settled results: one push per fulfilled
\* request, of result.value.find(e => e.Region === this.region).
RECURSIVE initBuilds(_, _)
initBuilds(results, i) ==
    IF i > Len(ProductSeq) THEN <<>>
    ELSE LET p == ProductSeq[i]
             rest == initBuilds(results, i + 1)
         IN  IF results[p] = "rejected" THEN rest
             ELSE IF results[p] = "region" THEN <<p>> \o rest
             ELSE <<Undefined>> \o rest

\* CASCRemote.resolveCDNHost, the then-callback of one ping.
\* NoBest stands for bestHost === null.
NoBest == [host |-> Null, ping |-> 0]
\* The then-callback without the comparison: the last ping to resolve wins.
pingThenLatest(best, h, ping) == [host |-> h, ping |-> ping]
pingThen(best, h, ping) ==
    IF best = NoBest \/ ping < best.ping THEN [host |-> h, ping |-> ping]
    ELSE best

\* No bytes: a cache file that does not exist, a buffer not yet read.
NoBytes == <<>>
\* The bytes the CDN serves as the index of archive k (content-addressed).
CDNBytes(k) == <<"index", k>>
\* CASCRemote.parseArchiveIndex: the entries are a function of the bytes alone.
parseArchiveIndex(bytes) == <<"entries", bytes>>

\* CASC.getFile and CASC.getValidRootEntries: the test of one root type.
rootTypeMatches(rootType, loc) ==
    /\ BitAnd(rootType.localeFlags, loc) /= 0
    /\ BitAnd(rootType.contentFlags, LowViolence) = 0

\* A getFile that takes the first root type of the locale, low violence or not.
getFileOnAnyContent(entries, types, enc, loc, fileDataID) ==
    IF fileDataID \notin DOMAIN entries
    THEN [threw |-> TRUE, value |-> "fileDataID does not exist in root"]
    ELSE LET root == entries[fileDataID]
             matching == {idx \in DOMAIN root :
                             BitAnd(types[idx + 1].localeFlags, loc) /= 0}
         IN  IF matching = {}
             THEN [threw |-> TRUE, value |-> "No root entry found for locale"]
             ELSE LET first == CHOOSE idx \in matching :
                                   \A other \in matching : idx <= other
                      contentKey == root[first]
                  IN  IF contentKey \notin DOMAIN enc
                      THEN [threw |-> TRUE, value |-> "No encoding entry found"]
                      ELSE [threw |-> FALSE, value |-> enc[contentKey]]

\* CASC.getFile, against tables (entries, types, enc) and locale loc.
getFileOn(entries, types, enc, loc, fileDataID) ==
    IF fileDataID \notin DOMAIN entries
    THEN [threw |-> TRUE, value |-> "fileDataID does not exist in root"]
    ELSE LET root == entries[fileDataID]
             matching == {idx \in DOMAIN root : rootTypeMatches(types[idx + 1], loc)}
         IN  IF matching = {}
             THEN [threw |-> TRUE, value |-> "No root entry found for locale"]
             ELSE LET first == CHOOSE idx \in matching :
                                   \A other \in matching : idx <= other
                      contentKey == root[first]
                  IN  IF contentKey \notin DOMAIN enc
                      THEN [threw |-> TRUE, value |-> "No encoding entry found"]
                      ELSE [threw |-> FALSE, value |-> enc[contentKey]]

\* A getValidRootEntries that lists a file once per root type it has.
RECURSIVE Repeat(_, _)
Repeat(x, n) == IF n = 0 THEN <<>> ELSE <<x>> \o Repeat(x, n - 1)
RECURSIVE getValidRootEntriesPerType(_, _, _)
getValidRootEntriesPerType(entries, types, loc) ==
    IF DOMAIN entries = {} THEN <<>>
    ELSE LET m == CHOOSE x \in DOMAIN entries : \A y \in DOMAIN entries : x <= y
             n == Cardinality({idx \in DOMAIN entries[m] :
                                  rootTypeMatches(types[idx + 1], loc)})
         IN  Repeat(m, n) \o
             getValidRootEntriesPerType([x \in DOMAIN entries \ {m} |-> entries[x]],
                                        types, loc)

\* CASC.getValidRootEntries, against tables (entries, types) and locale loc.
getValidRootEntriesOn(entries, types, loc) ==
    LET include(fileDataID) ==
            \E rootTypeIdx \in DOMAIN entries[fileDataID] :
                rootTypeMatches(types[rootTypeIdx + 1], loc)
    IN  SelectSeq(Ascending(DOMAIN entries), include)

(***************************************************************************)
(* CASCRemote.formatCDNKey. A string is the sequence of its characters.    *)
(***************************************************************************)
HexDigits == {"0", "a", "f"}
RECURSIVE StringsOfLen(_)
StringsOfLen(n) ==
    IF n = 0 THEN {<<>>}
    ELSE {Append(str, ch) : str \in StringsOfLen(n - 1), ch \in HexDigits}
\* The keys formatCDNKey is called with.
HexKeys == UNION {StringsOfLen(n) : n \in 0..MaxKeyLen}

\* String.prototype.substring(start, end): both indices are clamped to the
\* length; the characters from index start up to, not including, index end.
substring(str, start, end) ==
    SubSeq(str, Min(start, Len(str)) + 1, Min(end, Len(str)))

\* A formatCDNKey that ends with what follows the two prefixes.
formatCDNKeyRest(key) ==
    substring(key, 0, 2) \o <<"/">> \o substring(key, 2, 4) \o <<"/">>
        \o substring(key, 4, Len(key))
\* CASCRemote.formatCDNKey
formatCDNKey(key) ==
    substring(key, 0, 2) \o <<"/">> \o substring(key, 2, 4) \o <<"/">> \o key

(***************************************************************************)
(* What the CDN can serve as encoding and root files.                      *)
(***************************************************************************)
EmptyMap == <<>>
\* map.set(k, v)
MapSet(map, k, v) ==
    [x \in DOMAIN map \cup {k} |-> IF x = k THEN v ELSE map[x]]

\* An encoding file: whether its magic is ENC_MAGIC, the header fields the
\* parser uses, and its pages, each the entries that precede its zero
\* padding. An entry is (keysCount, size, cKey, keysCount eKeys).
EncodingEntry(cKey, size, eKeys) ==
    [keysCount |-> Len(eKeys), size |-> size, cKey |-> cKey, eKeys |-> eKeys]
EncodingFile(magicOK, specBlockSize, pages) ==
    [magicOK |-> magicOK, hashSizeCKey |-> 16, hashSizeEKey |-> 16,
     cKeyPageSizeKB |-> 1, specBlockSize |-> specBlockSize, pages |-> pages]
FullEncodingFile ==
    EncodingFile(TRUE, 0, << << EncodingEntry(RootCKey, 7, <<"eroot">>),
                                EncodingEntry("c1", 5, <<"e1", "e1b">>) >> >>)
AllEncodingFiles ==
    { EncodingFile(FALSE, 0, << << EncodingEntry("c1", 5, <<"e1">>) >> >>),
      EncodingFile(TRUE, 0, << >>),
      EncodingFile(TRUE, 0, << << EncodingEntry("c1", 5, <<"e1", "e1b">>) >> >>),
      FullEncodingFile }
\* One page of three entries after an empty spec block; the same after a
\* spec block of 100 bytes; two pages of one entry each.
ThreeEntryEncodingFile ==
    EncodingFile(TRUE, 0, << << EncodingEntry("c1", 5, <<"e1", "e1b">>),
                                EncodingEntry("c2", 6, <<"e2">>),
                                EncodingEntry("c3", 9, <<"e3">>) >> >>)
\* Keys of 122 and 128 bytes, entries of 256 bytes: the four entries of the
\* first page fill its 1024 bytes, with no padding; the second page has one
\* entry. The last page of a file is never full here: what would be read
\* after it is no part of the table.
FullPageEncodingFile(specBlockSize) ==
    [EncodingFile(TRUE, specBlockSize,
                  << << EncodingEntry("c1", 5, <<"e1">>),
                        EncodingEntry("c2", 6, <<"e2">>),
                        EncodingEntry("c3", 9, <<"e3">>),
                        EncodingEntry("c4", 3, <<"e4">>) >>,
                     << EncodingEntry("c5", 4, <<"e5">>) >> >>)
       EXCEPT !.hashSizeCKey = 122, !.hashSizeEKey = 128]
ParserEncodingFiles ==
    AllEncodingFiles \cup
    { ThreeEntryEncodingFile,
      EncodingFile(TRUE, 100, ThreeEntryEncodingFile.pages),
      EncodingFile(TRUE, 0, << << EncodingEntry("c1", 5, <<"e1">>) >>,
                               << EncodingEntry("c2", 6, <<"e2", "e2b">>) >> >>),
      FullPageEncodingFile(0),
      FullPageEncodingFile(1000) }

\* The bytes parseEncodingFile reads before the spec block:
\* 2 + 1 + 1 + 1 + 2 + 2 + 4 + (4 + 1) + 4.
EncodingHeaderSize == 22
\* The bytes one entry takes: keysCount, the 40-bit size, the cKey, the eKeys.
EncodingEntrySize(file, entry) ==
    1 + 5 + file.hashSizeCKey + file.hashSizeEKey * entry.keysCount
\* pagesStart: the offset after the header, the spec block and the page index.
pagesStart(file) ==
    EncodingHeaderSize + file.specBlockSize
        + Len(file.pages) * (file.hashSizeCKey + 16)
cKeyPageSize(file) == file.cKeyPageSizeKB * 1024
pageStart(file, i) == pagesStart(file) + cKeyPageSize(file) * i

\* The offset at which entry j of page p (counted from 1) starts.
RECURSIVE EntryStart(_, _, _)
EntryStart(file, p, j) ==
    IF j = 1 THEN pageStart(file, p - 1)
    ELSE EntryStart(file, p, j - 1)
            + EncodingEntrySize(file, file.pages[p][j - 1])
\* What a read of keysCount finds in the zero padding of a page.
ZeroEntry == [keysCount |-> 0, size |-> 0, cKey |-> "", eKeys |-> <<>>]
\* What is read at offset: the entry that starts there, or a zero byte of
\* padding.
EntryAt(file, offset) ==
    LET entries == UNION {{<<p, j>> : j \in DOMAIN file.pages[p]} :
                             p \in DOMAIN file.pages}
        at == {pj \in entries : EntryStart(file, pj[1], pj[2]) = offset}
    IN  IF at = {} THEN ZeroEntry
        ELSE LET pj == CHOOSE x \in at : TRUE IN file.pages[pj[1]][pj[2]]

\* The while loop over page i (counted from 0), about to read at offset.
\* Every entry read is noted with the page whose loop read it.
RECURSIVE parseEncodingPage(_, _, _, _)
parseEncodingPage(file, i, offset, tables) ==
    IF ~(offset < pageStart(file, i) + pagesStart(file)) THEN tables
    ELSE LET entry == EntryAt(file, offset)
         IN  IF entry.keysCount = 0 THEN tables
             ELSE parseEncodingPage(file, i,
                      offset + EncodingEntrySize(file, entry),
                      [sizes |-> MapSet(tables.sizes, entry.cKey, entry.size),
                       keys |-> MapSet(tables.keys, entry.cKey, entry.eKeys[1]),
                       reads |-> Append(tables.reads,
                                        [page |-> i, offset |-> offset])])

\* The for loop over the pages, from page i on.
RECURSIVE parseEncodingPages(_, _, _)
parseEncodingPages(file, i, tables) ==
    IF ~(i < Len(file.pages)) THEN tables
    ELSE parseEncodingPages(file, i + 1,
             parseEncodingPage(file, i, pageStart(file, i), tables))
\* A root file: whether it is whole (or cut short inside its first block
\* header), whether its first four bytes are ROOT_MAGIC, the two counts of
\* the modern header, and its blocks, laid out as the parser reads them.
RootBlock(contentFlags, localeFlags, deltas, keys) ==
    [numRecords |-> Len(deltas), contentFlags |-> contentFlags,
     localeFlags |-> localeFlags, deltas |-> deltas, keys |-> keys]
RootFile(wellFormed, modern, totalFileCount, namedFileCount, blocks) ==
    [wellFormed |-> wellFormed, modern |-> modern,
     totalFileCount |-> totalFileCount, namedFileCount |-> namedFileCount,
     blocks |-> blocks]
OneTypeRootFile ==
    RootFile(TRUE, TRUE, 1, 1, << RootBlock(0, enUS, <<1>>, <<"c1">>) >>)
AllRootFiles ==
    { RootFile(FALSE, TRUE, 1, 1, << RootBlock(0, enUS, <<1>>, <<"c1">>) >>),
      RootFile(TRUE, TRUE, 0, 0, << >>),
      OneTypeRootFile,
      \* legacy: files 1 and 2 low-violence in enUS, file 1 also in locale 32
      RootFile(TRUE, FALSE, 0, 0,
               << RootBlock(LowViolence, enUS, <<1, 0>>, <<"c1", "c1">>),
                  RootBlock(0, 32, <<1>>, <<"c2">>) >>),
      \* modern with nameless files: file 1 twice in enUS, file 3 once,
      \* file 2 low-violence
      RootFile(TRUE, TRUE, 3, 1,
               << RootBlock(NoNameHash, enUS, <<1, 1>>, <<"c1", "c3">>),
                  RootBlock(0, enUS + 32, <<1>>, <<"c2">>),
                  RootBlock(LowViolence, enUS, <<2>>, <<"c1">>) >>),
      \* modern, every file named, a block with the no-name-hash bit
      RootFile(TRUE, TRUE, 2, 2,
               << RootBlock(NoNameHash, enUS, <<2, 0>>, <<"c1", "c2">>),
                  RootBlock(0, 32, <<2>>, <<"c1">>) >>) }

\* The fileDataIDs of a block: nextID = fileDataID + delta, then
\* fileDataID = nextID + 1.
RECURSIVE fileDataIDs(_, _, _)
fileDataIDs(deltas, i, fileDataID) ==
    IF i > Len(deltas) THEN <<>>
    ELSE LET nextID == fileDataID + deltas[i]
         IN  <<nextID>> \o fileDataIDs(deltas, i + 1, nextID + 1)

\* The loop over the records of a block: record i is stored under the
\* index rootTypeIdx in the entry of its fileDataID.
RECURSIVE setRootEntries(_, _, _, _, _)
setRootEntries(entries, ids, keys, i, rootTypeIdx) ==
    IF i > Len(ids) THEN entries
    ELSE LET entry == IF ids[i] \in DOMAIN entries THEN entries[ids[i]]
                      ELSE EmptyMap
         IN  setRootEntries(MapSet(entries, ids[i], MapSet(entry, rootTypeIdx, keys[i])),
                            ids, keys, i + 1, rootTypeIdx)

\* A modern block whose name hashes are never skipped over.
skipsNameHashesNever(file, block) == FALSE
\* Whether the parser moves over 8 bytes per record after the keys of a
\* modern block: !(allowNamelessFiles && contentFlags & NoNameHash).
skipsNameHashes(file, block) ==
    ~(/\ file.totalFileCount /= file.namedFileCount
      /\ BitAnd(block.contentFlags, NoNameHash) /= 0)

\* rootTypes.length once the block's RootType has been pushed.
rootTypeIndexAfterPush(types) == Len(types) + 1
\* rootTypes.length, the index the records of a block are stored under.
rootTypeIndex(types) == Len(types)

\* One pass of the while loop, modern or legacy, over block b read from
\* offset: the tables afterwards, the offset after the last content key
\* read alone (modern) and the offset after the block.
parseRootBlock(file, b, offset, tables) ==
    LET block == file.blocks[b]
        n == block.numRecords
        ids == fileDataIDs(block.deltas, 1, 0)
        afterIDs == offset + 4 + 4 + 4 + 4 * n
        afterKeys == IF file.modern THEN afterIDs + 16 * n
                     ELSE afterIDs + (16 + 8) * n
        end == IF file.modern /\ skipsNameHashes(file, block)
               THEN afterKeys + 8 * n ELSE afterKeys
    IN  [types |-> Append(tables.types,
                          [contentFlags |-> block.contentFlags,
                           localeFlags |-> block.localeFlags]),
         entries |-> setRootEntries(tables.entries, ids, block.keys, 1,
                                    rootTypeIndex(tables.types)),
         trace |-> Append(tables.trace,
                          [start |-> offset, afterKeys |-> afterKeys,
                           end |-> end])]

RECURSIVE parseRootBlocks(_, _, _, _)
parseRootBlocks(file, b, offset, tables) ==
    IF b > Len(file.blocks) THEN tables
    ELSE LET after == parseRootBlock(file, b, offset, tables)
         IN  parseRootBlocks(file, b + 1, Last(after.trace).end, after)

\* CASC.parseRootFile on tables (types, entries): the blocks are read from
\* offset 12 after a modern header, from offset 0 otherwise; the result is
\* rootEntries.size.
parseRootFile(file, types, entries) ==
    IF ~file.wellFormed
    THEN [threw |-> TRUE, types |-> types, entries |-> entries, trace |-> <<>>,
          size |-> 0]
    ELSE LET tables == parseRootBlocks(file, 1, IF file.modern THEN 4 + 4 + 4 ELSE 0,
                                       [types |-> types, entries |-> entries,
                                        trace |-> <<>>])
         IN  [threw |-> FALSE, types |-> tables.types, entries |-> tables.entries,
              trace |-> tables.trace,
              size |-> Cardinality(DOMAIN tables.entries)]

(***************************************************************************)
(* The environment. The network, the disk and the callers are explored one *)
(* part at a time: in a run of environment e the part e answers anything   *)
(* it can, and the other parts answer the success case. env is fixed at    *)
(* Init and never changes.                                                 *)
(*   "discovery"  the version config requests of init()                    *)
(*   "pipeline"   the requests of the stages of load()                     *)
(*   "hosts"      the pings of resolveCDNHost()                            *)
(*   "indexes"    the index cache, its other users, the index downloads    *)
(*   "lookups"    the callers of getFile and getValidRootEntries, the      *)
(*                encoding and root files, the locale                      *)
(*   "locale"     config.cascLocale and its watcher, cleanup()             *)
(*   "disk"       the cache directory, whose reads and writes may fail     *)
(*   "parsers"    parseEncodingFile and parseRootFile called on their own  *)
(*   "keys"       formatCDNKey called on its own                           *)
(*   "settings"   changes of State.config and their saving                 *)
(*   "savefail"   the same, with writes of the config file that may fail   *)
(*   "screen"     the configuration screen and the saving of what it       *)
(*                applies                                                  *)
(*   "fanout"     archive lists longer than the queue's limit; the calls   *)
(*                of the queue's handler are counted, not followed         *)
(***************************************************************************)
Envs == {"discovery", "pipeline", "hosts", "indexes", "lookups", "locale"}
\* The families with a cache directory that may fail.
DiskEnvs == Envs \cup {"disk"}

\* An HTTP answer to a config request: its status and what the document holds.
ConfigAnswers(free) ==
    IF free THEN {200, 404} \X {"region", "noRegion"} ELSE {<<200, "region">>}
\* The status of a CDN config or build config request.
Statuses(free) == IF free THEN {200, 404} ELSE {200}
\* Whether a download succeeds.
Downloads(free) == IF free THEN BOOLEAN ELSE {TRUE}
\* Whether a read or a write of the cache directory fails with an I/O error.
DiskFaults == IF env = "disk" THEN BOOLEAN ELSE {FALSE}
\* The latencies a ping may resolve with, and whether it may reject.
PingLatencies == IF env = "hosts" THEN 1..MaxPing ELSE {1}
PingMayReject == env \in {"hosts", "pipeline"}
\* The files the CDN serves, and the archive list of its CDN config.
EncodingFiles == IF env \in {"pipeline", "lookups"} THEN AllEncodingFiles
                 ELSE {FullEncodingFile}
RootFiles == IF env \in {"pipeline", "lookups"} THEN AllRootFiles
             ELSE {OneTypeRootFile}
CDNArchiveLists == IF env \in {"pipeline", "indexes", "disk"} THEN ArchiveLists
                   ELSE {<<1>>}

(***************************************************************************)
(* State after construction.                                               *)
(***************************************************************************)
\* Calls 1..MaxArchives are those of loadArchives' queue (call i indexes the
\* i-th archive key); the others come from other users of the index cache.
QueueCalls == 1..MaxArchives
DirectCalls == (MaxArchives + 1)..(MaxArchives + MaxDirect)
CallIds == QueueCalls \cup DirectCalls

IdleCall ==
    [key |-> 0, pc |-> "idle", data |-> NoBytes, entries |-> NoBytes,
     downloaded |-> FALSE, afterFetch |-> FALSE, cacheAtParse |-> NoBytes,
     readFault |-> FALSE, writeFault |-> FALSE, error |-> Null]
NoPing == [state |-> "none", ping |-> 0]
(***************************************************************************)
(* The configuration (config module). A value is a string, the sequence of *)
(* its characters, or an array, a reference into the heap.                 *)
(***************************************************************************)
Str(str) == [t |-> "string", str |-> str, ref |-> 0]
Arr(ref) == [t |-> "array", str |-> <<>>, ref |-> ref]
\* The strings followed: '', a path or a text that is no URL, a URL.
NoText == <<>>
SomeText == <<"x">>
HttpURL == <<"h", "t", "t", "p">>
Texts == {NoText, SomeText, HttpURL}
\* str.startsWith('http')
startsWithHttp(str) == Len(str) >= 4 /\ SubSeq(str, 1, 4) = HttpURL

\* The array that defaultConfig.recentLocal is.
DefaultRef == 1
\* defaultConfig, its settings that the module itself reads and one list.
defaultConfig ==
    [exportDirectory |-> Str(NoText), listfileURL |-> Str(HttpURL),
     tactKeysURL |-> Str(HttpURL), dbdURL |-> Str(HttpURL),
     recentLocal |-> Arr(DefaultRef)]
TextKeys == {"exportDirectory", "listfileURL", "tactKeysURL", "dbdURL"}
\* A key of the user's file for which there is no default.
ExtraKey == "extra"

\* The user's config files followed: none, one with an export directory and
\* a key without default, one with a list of one recent installation.
\* A list of the file is given by its items.
UserConfigs ==
    { << >>,
      [exportDirectory |-> SomeText, extra |-> SomeText],
      [recentLocal |-> <<"a">>] }

\* copyConfig(src, target) for a source whose only array is recentLocal:
\* the array is cloned (value.slice(0)) at the next free reference.
copyConfigValues(src, target, heapNow) ==
    [key \in DOMAIN src \cup DOMAIN target |->
        IF key \in DOMAIN src
        THEN IF src[key].t = "array" THEN Arr(Len(heapNow) + 1) ELSE src[key]
        ELSE target[key]]
copyConfigHeap(src, heapNow) ==
    IF "recentLocal" \in DOMAIN src /\ src["recentLocal"].t = "array"
    THEN Append(heapNow, heapNow[src["recentLocal"].ref])
    ELSE heapNow

\* The values of a configuration with each array given by its items: what
\* JSON.stringify writes, what a reader of the settings sees.
Items(value, heapNow) ==
    [t |-> value.t, str |-> value.str,
     items |-> IF value.t = "array" THEN heapNow[value.ref] ELSE <<>>]
Values(cfg, heapNow) == [key \in DOMAIN cfg |-> Items(cfg[key], heapNow)]

\* defaultConfig[key] === value
StrictEquals(a, b) == a.t = b.t /\ a.str = b.str /\ a.ref = b.ref
\* The keys doSave puts into configSave: those without default or whose
\* value is not (===) the default.
doSaveKeys(cfg) ==
    {key \in DOMAIN cfg :
        ~(key \in DOMAIN defaultConfig /\ StrictEquals(defaultConfig[key], cfg[key]))}
\* configSave as JSON.stringify writes it.
configSave(cfg, heapNow) ==
    [key \in doSaveKeys(cfg) |-> Items(cfg[key], heapNow)]
\* No file has been written.
NoFile == << >>
\* The saver at rest: isSaving and isQueued false, nothing pending.
IdleSaver ==
    [isSaving |-> FALSE, isQueued |-> FALSE, watcherPending |-> FALSE,
     immediates |-> 0, writes |-> <<>>, disk |-> NoFile, changed |-> FALSE,
     resaved |-> FALSE, failed |-> FALSE, changedSince |-> FALSE]
\* A save() that starts doSave whether or not one is under way.
saveAlways(s) == [s EXCEPT !.isSaving = TRUE, !.immediates = @ + 1]
\* save(): mark the configuration for saving.
save(s) ==
    IF ~s.isSaving
    THEN [s EXCEPT !.isSaving = TRUE, !.immediates = @ + 1]
    ELSE [s EXCEPT !.isQueued = TRUE]
\* A doSave that never saves again after its write.
doSaveAgainNever(s) == FALSE
\* Whether doSave, its write done, calls itself again.
doSaveAgain(s) == s.isQueued
\* A write of doSave: what is written, and the values and the defaults it
\* was computed from.
Write(cfg, heapNow) ==
    [out |-> configSave(cfg, heapNow), from |-> Values(cfg, heapNow),
     defaults |-> Values(defaultConfig, heapNow)]

\* The screens and toasts at rest.
NoUI == [screen |-> "other", toast |-> "none", edits |-> 0, applies |-> 0,
         opened |-> << >>, last |-> "none"]

\* The families in which the configuration is followed.
SettingsEnvs == {"settings", "screen", "savefail"}
\* The state load() leaves: the defaults, then the user's file, copied into
\* State.config; the watcher on config is registered.
LoadedFrom(user) ==
    LET heap0 == << <<>> >>
        defaults == copyConfigValues(defaultConfig, << >>, heap0)
        heap1 == copyConfigHeap(defaultConfig, heap0)
        userValues == [key \in DOMAIN user |->
                          IF key = "recentLocal" THEN Arr(Len(heap1) + 1)
                          ELSE Str(user[key])]
        heap2 == IF "recentLocal" \in DOMAIN user
                 THEN Append(heap1, user["recentLocal"]) ELSE heap1
    IN  [config |-> copyConfigValues(userValues, defaults, heap2),
         heap |-> copyConfigHeap(userValues, heap2)]
SettingsInit ==
    /\ \E user \in IF env \in SettingsEnvs THEN UserConfigs ELSE {<< >>} :
           /\ config = LoadedFrom(user).config
           /\ heap = LoadedFrom(user).heap
    /\ configEdit = << >>
    /\ saver = IdleSaver
    /\ ui = NoUI

(***************************************************************************)
(* The listbox component                                                   *)
(***************************************************************************)
\* No item: null as lastSelectItem, undefined as items[index] out of range.
NoItem == 0
\* The items are objects; 1..MaxItems are their identities.
ItemIds == 1..MaxItems
\* The items prop: the first n items.
ItemLists == {[i \in 1..n |-> i] : n \in 0..MaxItems}
\* Arrays of at most n items, in any order, repeats included.
Selections(n) == UNION {[1..m -> ItemIds] : m \in 0..n}

\* Array.prototype.indexOf: the index from 0 of the first occurrence, or -1.
indexOf(array, item) ==
    IF \E i \in DOMAIN array : array[i] = item
    THEN (CHOOSE i \in DOMAIN array :
              array[i] = item /\ \A j \in 1..(i - 1) : array[j] /= item) - 1
    ELSE -1
\* array[index], indexes from 0.
at(array, index) ==
    IF index >= 0 /\ index < Len(array) THEN array[index + 1] ELSE NoItem
\* Array.prototype.slice(start, end), indexes from 0.
slice(array, start, end) ==
    LET len == Len(array)
        from == IF start < 0 THEN Max(len + start, 0) ELSE Min(start, len)
        to == IF end < 0 THEN Max(len + end, 0) ELSE Min(end, len)
    IN  [i \in 1..Max(to - from, 0) |-> array[from + i]]
\* array.splice(index, 1)
spliceOne(array, index) ==
    [i \in 1..(Len(array) - 1) |-> IF i <= index THEN array[i] ELSE array[i + 1]]
\* selection.join('\n') of items that are objects.
joined(array) == [i \in DOMAIN array |-> "[object Object]"]

\* scrollRel is kept in units of itemWeight, 1 / items.length: the key and
\* wheel handlers move it by whole multiples of it, and recalculateBounds
\* keeps it between 0 and 1.
recalculateBounds(l, scrollRel) == Min(Len(l.items), Max(0, scrollRel))
\* Math.round((items.length - slotCount) * scrollRel)
scrollIndex(l) ==
    LET length == Len(l.items)
    IN  IF length = 0 THEN 0
        ELSE (2 * (length - l.slotCount) * l.scrollRel + length) \div (2 * length)
displayItems(l) == slice(l.items, scrollIndex(l), scrollIndex(l) + l.slotCount)

\* handleKey: whether an arrow key replaces the selection.
replacesOnArrowUnlessShift(shiftKey, single) == ~shiftKey
replacesOnArrow(shiftKey, single) == ~shiftKey \/ single
\* selectItem: whether a click without ctrl and shift replaces the selection.
replacesOnClickUnselected(checkIndex, length) == checkIndex = -1
replacesOnClick(checkIndex, length) ==
    checkIndex = -1 \/ (checkIndex > -1 /\ length > 1)

\* selectItem with shift: the items of the range not yet selected are pushed.
RECURSIVE pushRange(_, _)
pushRange(selection, range) ==
    IF range = <<>> THEN selection
    ELSE pushRange(IF indexOf(selection, Head(range)) = -1
                   THEN Append(selection, Head(range)) ELSE selection,
                   Tail(range))

\* The listbox after selectItem(item, event).
selectedItem(l, item, ctrlKey, shiftKey) ==
    LET checkIndex == indexOf(l.selection, item)
        lastSelectIndex == indexOf(l.items, l.lastSelectItem)
        thisSelectIndex == indexOf(l.items, item)
        delta == Abs(lastSelectIndex - thisSelectIndex)
        lowest == Min(lastSelectIndex, thisSelectIndex)
        range == slice(l.items, lowest, lowest + delta + 1)
    IN  IF l.single
        THEN [l EXCEPT !.selection = IF checkIndex = -1 THEN <<item>> ELSE @,
                       !.lastSelectItem = item]
        ELSE [l EXCEPT
                 !.selection =
                     IF ctrlKey
                     THEN IF checkIndex > -1 THEN spliceOne(@, checkIndex)
                          ELSE Append(@, item)
                     ELSE IF shiftKey
                     THEN IF l.lastSelectItem /= NoItem /\ l.lastSelectItem /= item
                          THEN pushRange(@, range) ELSE @
                     ELSE IF replacesOnClick(checkIndex, Len(@)) THEN <<item>>
                     ELSE @,
                 !.lastSelectItem = item]

\* The listbox after handleKey(event); bodyFocused is
\* document.activeElement === document.body.
handledKey(l, key, ctrlKey, shiftKey, bodyFocused) ==
    IF ~bodyFocused THEN l
    ELSE IF l.lastSelectItem = NoItem THEN l
    ELSE IF key = "c" /\ ctrlKey THEN [l EXCEPT !.clipboard = joined(l.selection)]
    ELSE IF key \notin {"ArrowUp", "ArrowDown"} THEN l
    ELSE
        LET isArrowUp == key = "ArrowUp"
            isArrowDown == key = "ArrowDown"
            delta == IF isArrowUp THEN -1 ELSE 1
            lastSelectIndex == indexOf(l.items, l.lastSelectItem)
            nextIndex == lastSelectIndex + delta
            next == at(l.items, nextIndex)
            lastViewIndex == IF isArrowUp THEN scrollIndex(l)
                             ELSE scrollIndex(l) + l.slotCount
            diff == Abs(nextIndex - lastViewIndex) + IF isArrowDown THEN 1 ELSE 0
            scrolls == \/ isArrowUp /\ nextIndex < lastViewIndex
                       \/ isArrowDown /\ nextIndex >= lastViewIndex
            kept == IF replacesOnArrow(shiftKey, l.single) THEN <<>> ELSE l.selection
        IN  IF next = NoItem THEN l
            ELSE [l EXCEPT
                     !.scrollRel = IF scrolls
                                   THEN recalculateBounds(l, @ + diff * delta)
                                   ELSE @,
                     !.selection = Append(kept, next),
                     !.lastSelectItem = next]

\* Whether no item is twice in the array.
NoRepeats(array) ==
    \A i \in DOMAIN array, j \in DOMAIN array : array[i] = array[j] => i = j
\* No click or key press yet.
NoEvent == [op |-> "none", item |-> NoItem, key |-> "", ctrlKey |-> FALSE,
            shiftKey |-> FALSE, bodyFocused |-> FALSE, before |-> <<>>]
\* A mounted listbox: data() and the props it was given; givenRepeats tells
\* whether the selection it was given held an item twice.
Listbox(single, items, selection, slotCount) ==
    [single |-> single, items |-> items, selection |-> selection,
     givenRepeats |-> ~NoRepeats(selection),
     slotCount |-> slotCount, scrollRel |-> 0, lastSelectItem |-> NoItem,
     clipboard |-> <<>>, events |-> 0, last |-> NoEvent]
\* A listbox of one or two slots, given a selection of at most two items; a
\* single listbox is given a selection of at most one item.
ListboxInit ==
    listbox \in
        IF env = "listbox"
        THEN {l \in {Listbox(single, items, selection, slotCount) :
                         single \in BOOLEAN, items \in ItemLists,
                         selection \in Selections(2),
                         slotCount \in {1, 2}} :
                  l.single => Len(l.selection) <= 1}
        ELSE {Listbox(FALSE, <<>>, <<>>, 1)}

\* No formatCDNKey call has returned.
NoFormat == [op |-> "none", key |-> <<>>, result |-> <<>>]
\* What lives beside the client, at rest.
OtherInit ==
    /\ formatted = NoFormat
    /\ SettingsInit
    /\ ListboxInit

\* No parser call has returned.
NoParse ==
    [op |-> "none", calls |-> 0, encoding |-> EncodingFile(TRUE, 0, << >>),
     root |-> RootFile(TRUE, TRUE, 0, 0, << >>), threw |-> FALSE,
     keys |-> EmptyMap, sizes |-> EmptyMap, types |-> <<>>, entries |-> EmptyMap,
     trace |-> <<>>, size |-> 0, reads |-> <<>>]
\* The watcher as the constructor leaves it: subscribed, its callback run
\* once on the configured value.
Watching(value) == [subscribed |-> TRUE, pending |-> FALSE, changes |-> 0,
                    value |-> value, atCleanup |-> UndefinedValue]
\* A lookup that returned: value is what getFile returned or threw, entries
\* what getValidRootEntries returned.
NoLookup == [op |-> "none", id |-> 0, ready |-> FALSE, rootEmpty |-> TRUE,
             threw |-> FALSE, value |-> Null, entries |-> <<>>]

InitIn(envs) ==
    /\ env \in envs
    /\ pc = "new"
    /\ step = "step"
    /\ vc = [p \in Products |-> "none"]
    /\ builds = <<>>
    /\ build = Undefined
    /\ host = Undefined
    /\ serverConfig = Undefined
    /\ pings = [h \in Hosts |-> NoPing]
    /\ bestHost = NoBest
    /\ cdnConfig = [set |-> FALSE, archives |-> <<>>]
    /\ buildConfig = [set |-> FALSE, root |-> Undefined]
    /\ archives = EmptyMap
    /\ queue = [running |-> FALSE, index |-> 0, settled |-> 0, failed |-> FALSE]
    /\ calls = [c \in CallIds |-> IdleCall]
    \* The cache directory outlives the client: it may hold indexes already.
    /\ cache \in {f \in [ArchiveKeys -> {NoBytes} \cup {CDNBytes(k) : k \in ArchiveKeys}] :
                    \A k \in ArchiveKeys :
                        f[k] \in IF env \in {"indexes", "disk"}
                                 THEN {NoBytes, CDNBytes(k)}
                                 ELSE {NoBytes}}
    /\ net = [k \in ArchiveKeys |-> [downloads |-> 0, writes |-> 0]]
    /\ fetched = {}
    /\ encodingKeys = EmptyMap
    /\ encodingSizes = EmptyMap
    /\ rootEntries = EmptyMap
    /\ rootTypes = <<>>
    /\ cascLocale \in IF env = "lookups" THEN {Num(l) : l \in Locales}
                      ELSE IF env = "locale" THEN LocaleValues
                      ELSE {Num(enUS)}
    \* The cascLocale watcher runs at once (immediate: true).
    /\ locale = watchCascLocale(cascLocale)
    /\ watcher = Watching(cascLocale)
    /\ stageLog = <<>>
    /\ outcome = [s \in Stages |-> "none"]
    /\ requests = [s \in Stages |-> 0]
    /\ failedAt = Null
    /\ lookup = NoLookup
    /\ parsed = NoParse
    /\ OtherInit

Init == InitIn(Envs)
DiskInit == InitIn(DiskEnvs)

\* A lookup has returned to its caller: its result is gone with the next
\* step of anything else.
Cleared ==
    lookup' = NoLookup /\ env' = env /\ parsed' = parsed /\ UNCHANGED otherVars
Returned == Cleared /\ UNCHANGED <<cascLocale, watcher>>

initVars == <<vc, builds, host>>
pingVars == <<pings, bestHost>>
configVars == <<serverConfig, cdnConfig, buildConfig>>
indexVars == <<archives, queue, calls, cache, net, fetched>>
tableVars == <<encodingKeys, encodingSizes, rootEntries, rootTypes>>
logVars == <<stageLog, outcome, requests, failedAt>>

(***************************************************************************)
(* CASCRemote.init                                                         *)
(***************************************************************************)
\* init() up to its await: every getVersionConfig request is issued.
init ==
    /\ pc = "new"
    /\ pc' = "init"
    /\ host' = PatchHost
    /\ builds' = <<>>
    /\ vc' = [p \in Products |-> "pending"]
    /\ UNCHANGED <<step, build, pingVars, configVars, indexVars, tableVars,
                   locale, logVars>>
    /\ Returned

\* The version config request of product p settles.
getVersionConfig(p) ==
    /\ pc = "init"
    /\ vc[p] = "pending"
    /\ \E answer \in ConfigAnswers(env = "discovery") :
           vc' = [vc EXCEPT ![p] = getConfig(answer[1], answer[2])]
    /\ UNCHANGED <<pc, step, builds, host, build, pingVars, configVars,
                   indexVars, tableVars, locale, logVars>>
    /\ Returned

\* Promise.allSettled has every result: the build list is filled.
initDone ==
    /\ pc = "init"
    /\ \A p \in Products : vc[p] /= "pending"
    /\ builds' = initBuilds(vc, 1)
    /\ pc' = "inited"
    /\ UNCHANGED <<step, vc, host, build, pingVars, configVars, indexVars,
                   tableVars, locale, logVars>>
    /\ Returned

(***************************************************************************)
(* CASCRemote.load                                                         *)
(***************************************************************************)
\* Stage s has returned with answer o: load() goes on to its next await.
StageReturns(s, o) ==
    /\ pc' = NextStage(s)
    /\ step' = "step"
    /\ stageLog' = IF NextStage(s) \in Stages
                   THEN Append(stageLog, NextStage(s)) ELSE stageLog
    /\ outcome' = [outcome EXCEPT ![s] = o]
    /\ failedAt' = failedAt

\* A stage whose error is caught and dropped: load() goes on.
StageSwallows(s, o) ==
    /\ pc' = NextStage(s)
    /\ step' = "step"
    /\ stageLog' = IF NextStage(s) \in Stages
                   THEN Append(stageLog, NextStage(s)) ELSE stageLog
    /\ outcome' = [outcome EXCEPT ![s] = o]
    /\ failedAt' = failedAt

\* Stage s has thrown on answer o: load() rejects.
StageThrows(s, o) ==
    /\ pc' = "failed"
    /\ step' = "step"
    /\ stageLog' = stageLog
    /\ outcome' = [outcome EXCEPT ![s] = o]
    /\ failedAt' = s

\* Stage s issues its first request and awaits it.
StageRequests(s) ==
    /\ step' = "wait"
    /\ requests' = [requests EXCEPT ![s] = @ + 1]
    /\ UNCHANGED <<pc, stageLog, outcome, failedAt>>

\* load(buildIndex) up to its first await (inside loadServerConfig).
load(buildIndex) ==
    /\ pc = "inited"
    /\ build' = builds[buildIndex]
    /\ pc' = LoadStages[1]
    /\ step' = "step"
    /\ stageLog' = <<LoadStages[1]>>
    /\ UNCHANGED <<initVars, pingVars, configVars, indexVars, tableVars,
                   locale, outcome, requests, failedAt>>
    /\ Returned

\* loadServerConfig after progress.step: this.build.Product of an undefined
\* build throws; otherwise the server config request is issued.
loadServerConfig ==
    /\ pc = "serverConfig" /\ step = "step"
    /\ IF build = Undefined
       THEN StageThrows("serverConfig", "TypeError") /\ requests' = requests
       ELSE StageRequests("serverConfig")
    /\ UNCHANGED <<initVars, build, pingVars, configVars, indexVars,
                   tableVars, locale>>
    /\ Returned

\* The server config request settles; the entry of the region is looked up.
loadServerConfigDone ==
    /\ pc = "serverConfig" /\ step = "wait"
    /\ \E answer \in ConfigAnswers(env = "pipeline") :
        LET serverConfigs == getConfig(answer[1], answer[2])
        IN  IF serverConfigs = "rejected"
            THEN StageThrows("serverConfig", "http") /\ serverConfig' = serverConfig
            ELSE IF serverConfigs = "noRegion"
            THEN StageThrows("serverConfig", "noRegion") /\ serverConfig' = Undefined
            ELSE StageReturns("serverConfig", "ok") /\ serverConfig' = "hosts"
    /\ UNCHANGED <<initVars, build, pingVars, cdnConfig, buildConfig,
                   indexVars, tableVars, locale, requests>>
    /\ Returned

(***************************************************************************)
(* CASCRemote.resolveCDNHost                                               *)
(***************************************************************************)
\* resolveCDNHost after progress.step: one ping per host is issued.
resolveCDNHost ==
    /\ pc = "resolveHost" /\ step = "step"
    /\ bestHost' = NoBest
    /\ pings' = [h \in Hosts |-> [state |-> "pending", ping |-> 0]]
    /\ StageRequests("resolveHost")
    /\ UNCHANGED <<initVars, build, configVars, indexVars, tableVars, locale>>
    /\ Returned

\* The ping of host h resolves with a latency: the then-callback runs.
pingResolved(h) ==
    /\ pc = "resolveHost" /\ step = "wait"
    /\ pings[h].state = "pending"
    /\ \E ping \in PingLatencies :
        /\ pings' = [pings EXCEPT ![h] = [state |-> "resolved", ping |-> ping]]
        /\ bestHost' = pingThen(bestHost, h, ping)
    /\ UNCHANGED <<pc, step, initVars, build, configVars, indexVars,
                   tableVars, locale, logVars>>
    /\ Returned

\* The ping of host h rejects: the catch-callback only logs.
pingRejected(h) ==
    /\ PingMayReject
    /\ pc = "resolveHost" /\ step = "wait"
    /\ pings[h].state = "pending"
    /\ pings' = [pings EXCEPT ![h] = [state |-> "rejected", ping |-> 0]]
    /\ UNCHANGED <<pc, step, initVars, build, bestHost, configVars,
                   indexVars, tableVars, locale, logVars>>
    /\ Returned

\* Host h neither answers nor reports an error: its ping stays pending for
\* ever (the source sets no timeout on it).
pingLost(h) ==
    /\ env = "hosts"
    /\ pc = "resolveHost" /\ step = "wait"
    /\ pings[h].state = "pending"
    /\ pings' = [pings EXCEPT ![h] = [state |-> "lost", ping |-> 0]]
    /\ UNCHANGED <<pc, step, initVars, build, bestHost, configVars,
                   indexVars, tableVars, locale, logVars>>
    /\ Returned

PingSettled(h) == pings[h].state \in {"resolved", "rejected"}

\* Promise.allSettled(hostPings) has every result: the host is stored, or
\* resolveCDNHost throws. Its locals go out of scope.
resolveCDNHostDone ==
    /\ pc = "resolveHost" /\ step = "wait"
    /\ \A h \in Hosts : PingSettled(h)
    /\ IF bestHost = NoBest
       THEN StageThrows("resolveHost", "noHost") /\ host' = host
       ELSE StageReturns("resolveHost", "ok") /\ host' = bestHost.host
    /\ pings' = [h \in Hosts |-> NoPing]
    /\ bestHost' = NoBest
    /\ UNCHANGED <<vc, builds, build, configVars, indexVars, tableVars,
                   locale, requests>>
    /\ Returned

(***************************************************************************)
(* CASCRemote.loadConfigs                                                  *)
(***************************************************************************)
\* loadConfigs after progress.step: the CDN config request is issued.
loadConfigs ==
    /\ pc = "configs" /\ step = "step"
    /\ StageRequests("configs")
    /\ UNCHANGED <<initVars, build, pingVars, configVars, indexVars,
                   tableVars, locale>>
    /\ Returned

\* getCDNConfig(this.build.CDNConfig) settles; the build config request follows.
getCDNConfigDone ==
    /\ pc = "configs" /\ step = "wait"
    /\ \E status \in Statuses(env = "pipeline"), list \in CDNArchiveLists :
        IF status /= 200
        THEN StageThrows("configs", "http") /\ cdnConfig' = cdnConfig
        ELSE /\ cdnConfig' = [set |-> TRUE, archives |-> list]
             /\ step' = "wait2"
             /\ UNCHANGED <<pc, logVars>>
    /\ UNCHANGED <<initVars, build, pingVars, serverConfig, buildConfig,
                   indexVars, tableVars, locale, requests>>
    /\ Returned

\* getCDNConfig(this.build.BuildConfig) settles.
getBuildConfigDone ==
    /\ pc = "configs" /\ step = "wait2"
    /\ \E status \in Statuses(env = "pipeline") :
        IF status /= 200
        THEN StageThrows("configs", "http") /\ buildConfig' = buildConfig
        ELSE /\ buildConfig' = [set |-> TRUE, root |-> RootCKey]
             /\ StageReturns("configs", "ok")
    /\ UNCHANGED <<initVars, build, pingVars, serverConfig, cdnConfig,
                   indexVars, tableVars, locale, requests>>
    /\ Returned

(***************************************************************************)
(* CASCRemote.getArchiveIndex                                              *)
(***************************************************************************)
\* path.join(constants.CACHE.ARCHIVE_INDEXES, key + '.index'): one file per key.
cachePath(key) == key
\* A cache read that always throws (a wrong path).
readFileNeverResolves(file) == FALSE
\* BufferWrapper.readFile(cachePath) resolves iff the file exists.
readFileResolves(file) == file /= NoBytes
\* A cache write that leaves the file empty.
writeToFileEmpty(data) == NoBytes
\* data.writeToFile(cachePath): the bytes the file holds afterwards.
writeToFile(data) == data

\* A call of getArchiveIndex(k) up to its first await: the cache read is issued.
StartCall(k, done) ==
    [IdleCall EXCEPT !.key = k, !.pc = "reading", !.afterFetch = k \in done]

\* generics.queue: the handler of call c has settled (ok: fulfilled). The
\* next item, if any, is started while fewer than QueueLimit are in flight.
\* A queue that starts one item more than its limit.
QueueFirstOneMore(n) == Min(n, QueueLimit + 1)
\* generics.queue: the items started at once, of n.
QueueFirst(n) == Min(n, QueueLimit)
QueueLaunches ==
    /\ queue.index < Len(cdnConfig.archives)
    /\ queue.index - (queue.settled + 1) < QueueLimit
\* A queue that gives up on the first rejected handler call.
QueueAfterAborts(ok) ==
    IF ok
    THEN [queue EXCEPT !.settled = @ + 1,
                       !.index = IF QueueLaunches THEN @ + 1 ELSE @]
    ELSE [queue EXCEPT !.settled = Len(cdnConfig.archives), !.failed = TRUE]
QueueAfter(ok) ==
    [queue EXCEPT !.settled = @ + 1,
                  !.failed = @ \/ ~ok,
                  !.index = IF QueueLaunches THEN @ + 1 ELSE @]

\* Call c returns record r (ok: fulfilled; done: the keys fetched by now). For a call of loadArchives'
\* queue the handler goes on: this.archives.set(key, entries), and the queue
\* starts its next item.
Settle(c, r, ok, done) ==
    IF c \in QueueCalls
    THEN /\ calls' = [d \in CallIds |->
                        IF d = c THEN r
                        ELSE IF QueueLaunches /\ d = queue.index + 1
                        THEN StartCall(cdnConfig.archives[d], done)
                        ELSE calls[d]]
         /\ queue' = QueueAfter(ok)
         /\ archives' = IF ok
                        THEN [k \in DOMAIN archives \cup {r.key} |->
                                 IF k = r.key THEN r.entries ELSE archives[k]]
                        ELSE archives
    ELSE /\ calls' = [calls EXCEPT ![c] = r]
         /\ UNCHANGED <<queue, archives>>

\* getArchiveIndex(k) called by another user of the index cache. No other
\* stage of load() touches the cache or the calls, so that a call made
\* during another stage behaves as one made before loadArchives fires or
\* after its last item has settled.
getArchiveIndex(k) ==
    /\ env = "indexes"
    /\ pc = "archives"
    /\ \E c \in DirectCalls :
        /\ calls[c].pc = "idle"
        /\ \A d \in DirectCalls : d < c => calls[d].pc /= "idle"
        /\ calls' = [calls EXCEPT ![c] = StartCall(k, fetched)]
    /\ UNCHANGED <<pc, step, initVars, build, pingVars, configVars, archives,
                   queue, cache, net, fetched, tableVars, locale, logVars>>
    /\ Returned

\* The cache read of call c settles: on a hit the bytes are parsed and
\* returned; on a miss the catch block issues the download.
readFileDone(c) ==
    /\ calls[c].pc = "reading"
    /\ \E fault \in DiskFaults :
       LET file == cache[cachePath(calls[c].key)]
       IN  IF readFileResolves(file) /\ ~fault
           THEN /\ Settle(c, [calls[c] EXCEPT !.pc = "done", !.data = file,
                                              !.entries = parseArchiveIndex(file),
                                              !.cacheAtParse = file],
                          TRUE, fetched)
                /\ UNCHANGED <<cache, net, fetched>>
           ELSE /\ calls' = [calls EXCEPT ![c].pc = "downloading",
                                          ![c].readFault = fault]
                /\ net' = [net EXCEPT ![calls[c].key].downloads = @ + 1]
                /\ UNCHANGED <<queue, archives, cache, fetched>>
    /\ UNCHANGED <<pc, step, initVars, build, pingVars, configVars,
                   tableVars, locale, logVars>>
    /\ Returned

\* The download of call c settles: the bytes go to the cache file, or the
\* call rejects with the download's error.
getDataFileDone(c) ==
    /\ calls[c].pc = "downloading"
    /\ \E ok \in Downloads(env \in {"pipeline", "indexes", "disk"}) :
        IF ok
        THEN /\ calls' = [calls EXCEPT ![c].pc = "writing",
                                       ![c].data = CDNBytes(calls[c].key),
                                       ![c].downloaded = TRUE]
             /\ UNCHANGED <<queue, archives>>
        ELSE Settle(c, [calls[c] EXCEPT !.pc = "failed", !.error = "download"],
                    FALSE, fetched)
    /\ UNCHANGED <<pc, step, initVars, build, pingVars, configVars, cache,
                   net, fetched, tableVars, locale, logVars>>
    /\ Returned

\* The cache write of call c settles. Done, the downloaded bytes are parsed
\* and returned. Failed, the await inside the catch block throws and the call
\* rejects with the write's error: the parse is not reached.
writeToFileDone(c) ==
    /\ calls[c].pc = "writing"
    /\ \E fault \in DiskFaults :
        IF fault
        THEN /\ Settle(c, [calls[c] EXCEPT !.pc = "failed", !.writeFault = TRUE,
                                           !.error = "io"],
                       FALSE, fetched)
             /\ UNCHANGED <<cache, net, fetched>>
        ELSE /\ cache' = [cache EXCEPT ![cachePath(calls[c].key)] =
                                          writeToFile(calls[c].data)]
             /\ net' = [net EXCEPT ![calls[c].key].writes = @ + 1]
             /\ fetched' = fetched \cup {calls[c].key}
             /\ Settle(c, [calls[c] EXCEPT !.pc = "done",
                                  !.entries = parseArchiveIndex(calls[c].data),
                                  !.cacheAtParse = cache'[cachePath(calls[c].key)]],
                       TRUE, fetched \cup {calls[c].key})
    /\ UNCHANGED <<pc, step, initVars, build, pingVars, configVars,
                   tableVars, locale, logVars>>
    /\ Returned

(***************************************************************************)
(* CASCRemote.loadArchives                                                 *)
(***************************************************************************)
\* loadArchives after progress.step: generics.queue starts the first items.
loadArchives ==
    /\ pc = "archives" /\ step = "step"
    /\ LET first == QueueFirst(Len(cdnConfig.archives))
       IN  /\ queue' = [running |-> TRUE, index |-> first, settled |-> 0,
                        failed |-> FALSE]
           /\ calls' = IF env = "fanout" THEN calls
                       ELSE [c \in CallIds |->
                               IF c \in 1..first
                               THEN StartCall(cdnConfig.archives[c], fetched)
                               ELSE calls[c]]
    /\ StageRequests("archives")
    /\ UNCHANGED <<initVars, build, pingVars, configVars, archives, cache,
                   net, fetched, tableVars, locale>>
    /\ Returned

\* One of the handler calls in flight settles (ok: fulfilled), whichever it
\* is: the queue starts its next item.
handlerSettles(ok) ==
    /\ env = "fanout"
    /\ queue.running
    /\ queue.settled < queue.index
    /\ queue' = QueueAfter(ok)
    /\ UNCHANGED <<pc, step, initVars, build, pingVars, configVars, archives,
                   calls, cache, net, fetched, tableVars, locale, logVars>>
    /\ Returned

\* generics.queue settles once every item's handler has.
loadArchivesDone ==
    /\ pc = "archives" /\ step = "wait"
    /\ queue.running
    /\ queue.settled = Len(cdnConfig.archives)
    /\ queue' = [queue EXCEPT !.running = FALSE]
    /\ IF queue.failed
       THEN StageThrows("archives", "archive")
       ELSE StageReturns("archives", "ok")
    /\ UNCHANGED <<initVars, build, pingVars, configVars, archives, calls,
                   cache, net, fetched, tableVars, locale, requests>>
    /\ Returned

(***************************************************************************)
(* CASCRemote.loadEncoding, loadRoot, loadListfile                         *)
(***************************************************************************)
\* A parser that reads the pages whatever the magic.
parseEncodingFileUnchecked(file, keys, sizes) ==
    LET tables == parseEncodingPages(file, 0, [keys |-> keys, sizes |-> sizes,
                                              reads |-> <<>>])
    IN  [threw |-> FALSE, keys |-> tables.keys, sizes |-> tables.sizes,
         reads |-> tables.reads]
\* CASC.parseEncodingFile on tables (keys, sizes): a bad magic throws before
\* anything is set; else the pages are read into the tables.
parseEncodingFile(file, keys, sizes) ==
    IF ~file.magicOK
    THEN [threw |-> TRUE, keys |-> keys, sizes |-> sizes, reads |-> <<>>]
    ELSE LET tables == parseEncodingPages(file, 0, [keys |-> keys, sizes |-> sizes,
                                                   reads |-> <<>>])
         IN  [threw |-> FALSE, keys |-> tables.keys, sizes |-> tables.sizes,
              reads |-> tables.reads]

\* loadEncoding after progress.step: the encoding file is requested.
loadEncoding ==
    /\ pc = "encoding" /\ step = "step"
    /\ StageRequests("encoding")
    /\ UNCHANGED <<initVars, build, pingVars, configVars, indexVars,
                   tableVars, locale>>
    /\ Returned

\* The download settles; the file is parsed into this.encodingKeys.
loadEncodingDone ==
    /\ pc = "encoding" /\ step = "wait"
    /\ \E ok \in Downloads(env = "pipeline"), file \in EncodingFiles :
        LET result == parseEncodingFile(file, encodingKeys, encodingSizes)
        IN  IF ~ok
            THEN /\ StageThrows("encoding", "download")
                 /\ UNCHANGED <<encodingKeys, encodingSizes>>
            ELSE /\ IF result.threw THEN StageThrows("encoding", "parse")
                    ELSE StageReturns("encoding", "ok")
                 /\ encodingKeys' = result.keys
                 /\ encodingSizes' = result.sizes
    /\ UNCHANGED <<initVars, build, pingVars, configVars, indexVars,
                   rootEntries, rootTypes, locale, requests>>
    /\ Returned

\* loadRoot up to its first request: the root key is taken from the
\* encoding table, and its absence throws before anything is requested.
loadRoot ==
    /\ pc = "root" /\ step = "step"
    /\ IF buildConfig.root \notin DOMAIN encodingKeys
       THEN StageThrows("root", "noRootKey") /\ requests' = requests
       ELSE StageRequests("root")
    /\ UNCHANGED <<initVars, build, pingVars, configVars, indexVars,
                   tableVars, locale>>
    /\ Returned

\* The download settles; the file is parsed into this.rootTypes and
\* this.rootEntries.
loadRootDone ==
    /\ pc = "root" /\ step = "wait"
    /\ \E ok \in Downloads(env = "pipeline"), file \in RootFiles :
        IF ~ok
        THEN StageThrows("root", "download") /\ UNCHANGED <<rootEntries, rootTypes>>
        ELSE LET result == parseRootFile(file, rootTypes, rootEntries)
             IN  /\ IF result.threw THEN StageThrows("root", "parse")
                    ELSE StageReturns("root", "ok")
                 /\ rootTypes' = result.types
                 /\ rootEntries' = result.entries
    /\ UNCHANGED <<initVars, build, pingVars, configVars, indexVars,
                   encodingKeys, encodingSizes, locale, requests>>
    /\ Returned

\* CASCRemote.loadListfile after progress.step: the listfile is requested.
loadListfile ==
    /\ pc = "listfile" /\ step = "step"
    /\ StageRequests("listfile")
    /\ UNCHANGED <<initVars, build, pingVars, configVars, indexVars,
                   tableVars, locale>>
    /\ Returned

\* listfile.loadListfile settles with its entry count; 0 throws.
loadListfileDone ==
    /\ pc = "listfile" /\ step = "wait"
    /\ \E entries \in IF env = "pipeline" THEN {0, 1} ELSE {1} :
        IF entries = 0
        THEN StageThrows("listfile", "noEntries")
        ELSE StageReturns("listfile", "ok")
    /\ UNCHANGED <<initVars, build, pingVars, configVars, indexVars,
                   tableVars, locale, requests>>
    /\ Returned

(***************************************************************************)
(* CASC.getFile, CASC.getValidRootEntries                                  *)
(***************************************************************************)
\* Whether load() has completed all its stages.
Ready == pc = "loaded"

\* getFile behind a check of the client's state.
getFileWhenReady(fileDataID) ==
    IF Ready
    THEN getFileOn(rootEntries, rootTypes, encodingKeys, ToInt32(locale), fileDataID)
    ELSE [threw |-> TRUE, value |-> "CASC source is not loaded"]

\* CASC.getFile on this client's tables and locale.
getFile(fileDataID) ==
    getFileOn(rootEntries, rootTypes, encodingKeys, ToInt32(locale), fileDataID)

\* What getValidRootEntries returns.
getValidRootEntries ==
    getValidRootEntriesOn(rootEntries, rootTypes, ToInt32(locale))

\* A caller invokes getFile(fileDataID): the call returns or throws.
callGetFile(fileDataID) ==
    /\ env = "lookups"
    /\ lookup' = [op |-> "getFile", id |-> fileDataID, ready |-> Ready,
                  rootEmpty |-> (DOMAIN rootEntries = {}),
                  threw |-> getFile(fileDataID).threw,
                  value |-> getFile(fileDataID).value,
                  entries |-> <<>>]
    /\ UNCHANGED <<pc, step, initVars, build, pingVars, configVars,
                   indexVars, tableVars, locale, logVars, env, cascLocale,
                   watcher, parsed, otherVars>>

\* A caller invokes getValidRootEntries().
callGetValidRootEntries ==
    /\ env = "lookups"
    /\ lookup' = [op |-> "getValidRootEntries", id |-> 0, ready |-> Ready,
                  rootEmpty |-> (DOMAIN rootEntries = {}),
                  threw |-> FALSE,
                  value |-> Null,
                  entries |-> getValidRootEntries]
    /\ UNCHANGED <<pc, step, initVars, build, pingVars, configVars,
                   indexVars, tableVars, locale, logVars, env, cascLocale,
                   watcher, parsed, otherVars>>

(***************************************************************************)
(* CASC.parseEncodingFile and CASC.parseRootFile called on their own       *)
(***************************************************************************)
\* A caller awaits parseEncodingFile(data, hash) on the client's tables.
callParseEncodingFile(file) ==
    /\ env = "parsers"
    /\ parsed.calls < MaxParses
    /\ LET result == parseEncodingFile(file, encodingKeys, encodingSizes)
       IN  /\ encodingKeys' = result.keys
           /\ encodingSizes' = result.sizes
           /\ parsed' = [NoParse EXCEPT !.op = "encoding",
                                        !.calls = parsed.calls + 1,
                                        !.encoding = file,
                                        !.threw = result.threw,
                                        !.keys = encodingKeys,
                                        !.sizes = encodingSizes,
                                        !.types = rootTypes,
                                        !.entries = rootEntries,
                                        !.reads = result.reads]
    /\ lookup' = NoLookup
    /\ UNCHANGED <<pc, step, initVars, build, pingVars, configVars, indexVars,
                   rootEntries, rootTypes, locale, logVars, env, cascLocale,
                   watcher, otherVars>>

\* A caller awaits parseRootFile(data, hash) on the client's tables.
callParseRootFile(file) ==
    /\ env = "parsers"
    /\ parsed.calls < MaxParses
    /\ LET result == parseRootFile(file, rootTypes, rootEntries)
       IN  /\ rootTypes' = result.types
           /\ rootEntries' = result.entries
           /\ parsed' = [NoParse EXCEPT !.op = "root",
                                        !.calls = parsed.calls + 1,
                                        !.root = file,
                                        !.threw = result.threw,
                                        !.keys = encodingKeys,
                                        !.sizes = encodingSizes,
                                        !.types = rootTypes,
                                        !.entries = rootEntries,
                                        !.trace = result.trace,
                                        !.size = result.size]
    /\ lookup' = NoLookup
    /\ UNCHANGED <<pc, step, initVars, build, pingVars, configVars, indexVars,
                   encodingKeys, encodingSizes, locale, logVars, env,
                   cascLocale, watcher, otherVars>>

(***************************************************************************)
(* CASCRemote.formatCDNKey called on its own                               *)
(***************************************************************************)
callFormatCDNKey(key) ==
    /\ env = "keys"
    /\ formatted' = [op |-> "formatCDNKey", key |-> key,
                     result |-> formatCDNKey(key)]
    /\ UNCHANGED clientVars
    /\ UNCHANGED settingsVars
    /\ UNCHANGED listbox

(***************************************************************************)
(* Clicks and keys on the listbox                                          *)
(***************************************************************************)
ListboxIdle == UNCHANGED clientVars /\ UNCHANGED settingsVars /\ formatted' = formatted

\* A click on a displayed item.
selectItem(item, ctrlKey, shiftKey) ==
    /\ env = "listbox"
    /\ listbox.events < MaxEvents
    /\ item \in Range(displayItems(listbox))
    /\ listbox' = [selectedItem(listbox, item, ctrlKey, shiftKey) EXCEPT
                      !.events = @ + 1,
                      !.last = [op |-> "selectItem", item |-> item, key |-> "",
                                ctrlKey |-> ctrlKey, shiftKey |-> shiftKey,
                                bodyFocused |-> FALSE, before |-> listbox.selection]]
    /\ ListboxIdle

\* A keydown event of the document.
handleKey(key, ctrlKey, shiftKey, bodyFocused) ==
    /\ env = "listbox"
    /\ listbox.events < MaxEvents
    /\ listbox' = [handledKey(listbox, key, ctrlKey, shiftKey, bodyFocused) EXCEPT
                      !.events = @ + 1,
                      !.last = [op |-> "handleKey", item |-> NoItem, key |-> key,
                                ctrlKey |-> ctrlKey, shiftKey |-> shiftKey,
                                bodyFocused |-> bodyFocused,
                                before |-> listbox.selection]]
    /\ ListboxIdle

\* A wheel event on the component: scrollCount items up or down, if an item
\* is displayed.
wheelMouse(direction, scrollCount) ==
    /\ env = "listbox"
    /\ displayItems(listbox) /= <<>>
    /\ listbox' = [listbox EXCEPT
                      !.scrollRel = recalculateBounds(listbox, @ + scrollCount * direction)]
    /\ ListboxIdle

(***************************************************************************)
(* Changes of State.config                                                 *)
(***************************************************************************)
\* What a step of the config module leaves alone.
ClientIdle == UNCHANGED clientVars /\ formatted' = formatted /\ listbox' = listbox
\* The deep watcher on State.config notices a change: save() is queued.
\* changedSince: the change came after a write had failed.
Noticed(s) == [s EXCEPT !.watcherPending = TRUE, !.changed = TRUE,
                        !.changedSince = s.failed]
Edited(event) == [ui EXCEPT !.edits = @ + 1, !.last = event]

\* The application assigns a text to a setting of State.config.
setConfig(key, text) ==
    /\ env \in {"settings", "savefail"}
    /\ ui.edits < MaxEdits
    /\ key \in DOMAIN config
    /\ config[key] /= Str(text)
    /\ config' = [config EXCEPT ![key] = Str(text)]
    /\ saver' = Noticed(saver)
    /\ ui' = Edited("set")
    /\ UNCHANGED <<configEdit, heap>>
    /\ ClientIdle

\* The application adds an installation to State.config.recentLocal.
pushConfig ==
    /\ env \in {"settings", "savefail"}
    /\ ui.edits < MaxEdits
    /\ heap' = [heap EXCEPT ![config["recentLocal"].ref] = Append(@, "a")]
    /\ saver' = Noticed(saver)
    /\ ui' = Edited("push")
    /\ UNCHANGED <<config, configEdit>>
    /\ ClientIdle

\* resetToDefault(key)
resetToDefault(key) ==
    /\ env \in {"settings", "savefail"}
    /\ ui.edits < MaxEdits
    /\ IF key \in DOMAIN defaultConfig
       THEN /\ config' = MapSet(config, key, defaultConfig[key])
            /\ saver' = IF config[key] /= defaultConfig[key]
                        THEN Noticed(saver) ELSE saver
       ELSE UNCHANGED <<config, saver>>
    /\ ui' = Edited("resetToDefault")
    /\ UNCHANGED <<configEdit, heap>>
    /\ ClientIdle

\* structuredClone(defaultConfig): the values and the heap with the clone
\* of the list.
clonedDefaults(heapNow) ==
    [config |-> [defaultConfig EXCEPT !["recentLocal"] = Arr(Len(heapNow) + 1)],
     heap |-> Append(heapNow, heapNow[DefaultRef])]

\* resetAllToDefault()
resetAllToDefault ==
    /\ env \in {"settings", "savefail"}
    /\ ui.edits < MaxEdits
    /\ config' = clonedDefaults(heap).config
    /\ heap' = clonedDefaults(heap).heap
    /\ saver' = Noticed(saver)
    /\ ui' = Edited("resetAllToDefault")
    /\ UNCHANGED configEdit
    /\ ClientIdle

(***************************************************************************)
(* save, doSave                                                            *)
(***************************************************************************)
\* The watcher on State.config runs: () => save().
configWatcherRuns ==
    /\ saver.watcherPending
    /\ saver' = [save(saver) EXCEPT !.watcherPending = FALSE]
    /\ UNCHANGED <<config, configEdit, heap, ui>>
    /\ ClientIdle

\* setImmediate calls doSave: configSave is computed and its write begun.
doSave ==
    /\ saver.immediates > 0
    /\ saver' = [saver EXCEPT !.immediates = @ - 1,
                              !.writes = Append(@, Write(config, heap))]
    /\ UNCHANGED <<config, configEdit, heap, ui>>
    /\ ClientIdle

\* Whether fs.writeFile may reject.
WriteOutcomes == IF env = "savefail" THEN BOOLEAN ELSE {TRUE}
\* s without its i-th element.
Without(seq, i) == SubSeq(seq, 1, i - 1) \o SubSeq(seq, i + 1, Len(seq))

\* fs.writeFile of a doSave settles. Fulfilled, doSave goes on: it calls
\* itself if a save was queued, else clears isSaving. Rejected, doSave
\* rejects there.
writeFileDone(i, ok) ==
    /\ i \in DOMAIN saver.writes
    /\ LET written == [saver EXCEPT !.writes = Without(@, i),
                                    !.disk = IF ok THEN saver.writes[i].out ELSE @]
       IN  saver' =
             IF ~ok THEN [written EXCEPT !.failed = TRUE]
             ELSE IF doSaveAgain(saver)
             THEN [written EXCEPT !.isQueued = FALSE,
                                  !.resaved = TRUE,
                                  !.writes = Append(@, Write(config, heap))]
             ELSE [written EXCEPT !.isSaving = FALSE]
    /\ UNCHANGED <<config, configEdit, heap, ui>>
    /\ ClientIdle

(***************************************************************************)
(* The configuration screen                                                *)
(***************************************************************************)
\* 'screen-config': the configuration screen is shown; State.configEdit is
\* Object.assign({}, State.config), whose arrays are those of State.config.
screenConfig ==
    /\ env = "screen"
    /\ ui.screen = "other"
    /\ configEdit' = config
    /\ ui' = [ui EXCEPT !.screen = "config", !.opened = Values(config, heap),
                        !.last = "open"]
    /\ UNCHANGED <<config, heap, saver>>
    /\ ClientIdle

\* The user edits a text of State.configEdit.
editConfigEdit(key, text) ==
    /\ env = "screen"
    /\ ui.screen = "config"
    /\ ui.edits < MaxEdits
    /\ key \in DOMAIN configEdit
    /\ configEdit[key] /= Str(text)
    /\ configEdit' = [configEdit EXCEPT ![key] = Str(text)]
    /\ ui' = Edited("edit")
    /\ UNCHANGED <<config, heap, saver>>
    /\ ClientIdle

\* The user adds an item to the list State.configEdit.recentLocal, in
\* place. The watcher on State.config notices it if the array is also that
\* of State.config.
pushConfigEdit ==
    /\ env = "screen"
    /\ ui.screen = "config"
    /\ ui.edits < MaxEdits
    /\ heap' = [heap EXCEPT ![configEdit["recentLocal"].ref] = Append(@, "a")]
    /\ saver' = IF config["recentLocal"].ref = configEdit["recentLocal"].ref
                THEN Noticed(saver) ELSE saver
    /\ ui' = Edited("pushEdit")
    /\ UNCHANGED <<config, configEdit>>
    /\ ClientIdle

\* 'click-config-reset': State.configEdit = structuredClone(defaultConfig).
clickConfigReset ==
    /\ env = "screen"
    /\ ui.screen = "config"
    /\ ui.edits < MaxEdits
    /\ configEdit' = clonedDefaults(heap).config
    /\ heap' = clonedDefaults(heap).heap
    /\ ui' = Edited("reset")
    /\ UNCHANGED <<config, saver>>
    /\ ClientIdle

\* An apply that checks nothing.
appliesUnchecked(cfg) == TRUE
\* The four checks of 'click-config-apply'.
applies(cfg) ==
    /\ Len(cfg["exportDirectory"].str) /= 0
    /\ Len(cfg["listfileURL"].str) /= 0
    /\ ~(Len(cfg["tactKeysURL"].str) = 0 \/ ~startsWithHttp(cfg["tactKeysURL"].str))
    /\ ~(Len(cfg["dbdURL"].str) = 0 \/ ~startsWithHttp(cfg["dbdURL"].str))

\* 'click-config-apply': a failed check shows an error toast and returns;
\* else State.config = cfg, the previous screen is shown, with a success
\* toast.
clickConfigApply ==
    /\ env = "screen"
    /\ ui.screen = "config"
    /\ ui.edits < MaxEdits
    /\ IF ~applies(configEdit)
       THEN /\ ui' = [Edited("apply") EXCEPT !.toast = "error",
                                             !.applies = @ + 1]
            /\ UNCHANGED <<config, saver>>
       ELSE /\ config' = configEdit
            /\ saver' = Noticed(saver)
            /\ ui' = [Edited("apply") EXCEPT !.toast = "success",
                                             !.screen = "other",
                                             !.applies = @ + 1]
    /\ UNCHANGED <<configEdit, heap>>
    /\ ClientIdle

\* 'click-config-discard': the previous screen is shown.
clickConfigDiscard ==
    /\ env = "screen"
    /\ ui.screen = "config"
    /\ ui' = [ui EXCEPT !.screen = "other", !.last = "discard"]
    /\ UNCHANGED <<config, configEdit, heap, saver>>
    /\ ClientIdle

(***************************************************************************)
(* The config.cascLocale watcher and CASC.cleanup                          *)
(***************************************************************************)
\* The application sets config.cascLocale to another value: the watcher, if
\* still subscribed, is queued to run.
setCascLocale(value) ==
    /\ env = "locale"
    /\ watcher.changes < MaxChanges
    /\ value /= cascLocale
    /\ cascLocale' = value
    /\ watcher' = [watcher EXCEPT !.pending = watcher.subscribed,
                                  !.changes = @ + 1]
    /\ UNCHANGED <<pc, step, initVars, build, pingVars, configVars, indexVars,
                   tableVars, locale, logVars>>
    /\ Cleared

\* The queued watcher runs its callback on the value config.cascLocale holds.
watcherRuns ==
    /\ watcher.subscribed /\ watcher.pending
    /\ locale' = watchCascLocale(cascLocale)
    /\ watcher' = [watcher EXCEPT !.pending = FALSE, !.value = cascLocale]
    /\ UNCHANGED <<pc, step, initVars, build, pingVars, configVars, indexVars,
                   tableVars, logVars, cascLocale>>
    /\ Cleared

\* CASC.cleanup: this.unhookConfig() tears the watcher down, a queued run
\* included.
cleanup ==
    /\ env = "locale"
    /\ watcher.subscribed
    /\ watcher' = [watcher EXCEPT !.subscribed = FALSE, !.pending = FALSE,
                                  !.atCleanup = locale]
    /\ UNCHANGED <<pc, step, initVars, build, pingVars, configVars, indexVars,
                   tableVars, locale, logVars, cascLocale>>
    /\ Cleared

(***************************************************************************)
(* The specification.                                                      *)
(***************************************************************************)
\* The steps of the client itself and of the network and disk it awaits.
ClientStep ==
    \/ init
    \/ \E p \in Products : getVersionConfig(p)
    \/ initDone
    \/ \E buildIndex \in 1..Len(builds) : load(buildIndex)
    \/ loadServerConfig
    \/ loadServerConfigDone
    \/ resolveCDNHost
    \/ \E h \in Hosts : pingResolved(h)
    \/ \E h \in Hosts : pingRejected(h)
    \/ resolveCDNHostDone
    \/ loadConfigs
    \/ getCDNConfigDone
    \/ getBuildConfigDone
    \/ loadArchives
    \/ \E c \in CallIds : readFileDone(c)
    \/ \E c \in CallIds : getDataFileDone(c)
    \/ \E c \in CallIds : writeToFileDone(c)
    \/ loadArchivesDone
    \/ loadEncoding
    \/ loadEncodingDone
    \/ loadRoot
    \/ loadRootDone
    \/ loadListfile
    \/ loadListfileDone
    \/ watcherRuns

Next ==
    \/ ClientStep
    \/ \E value \in LocaleValues : setCascLocale(value)
    \/ cleanup
    \/ \E h \in Hosts : pingLost(h)
    \/ \E k \in ArchiveKeys : getArchiveIndex(k)
    \/ \E fileDataID \in FileDataIDs : callGetFile(fileDataID)
    \/ callGetValidRootEntries

Spec == Init /\ [][Next]_vars

\* The event loop runs every callback that is ready, and the network and
\* the disk answer every request but a lost ping.
FairSpec == Spec /\ WF_vars(ClientStep)
\* The client with a cache directory whose reads and writes may fail.
DiskSpec == DiskInit /\ [][Next]_vars

\* load() about to run loadArchives on an archive list of n keys: the stages
\* before it have returned.
QueueInit ==
    /\ env = "fanout"
    /\ pc = "archives"
    /\ step = "step"
    /\ vc = [p \in Products |-> "region"]
    /\ builds = ProductSeq
    /\ build = ProductSeq[1]
    /\ host = HostSeq[1]
    /\ serverConfig = "hosts"
    /\ pings = [h \in Hosts |-> NoPing]
    /\ bestHost = NoBest
    /\ \E n \in 1..MaxKeys :
           cdnConfig = [set |-> TRUE, archives |-> [i \in 1..n |-> i]]
    /\ buildConfig = [set |-> TRUE, root |-> RootCKey]
    /\ archives = EmptyMap
    /\ queue = [running |-> FALSE, index |-> 0, settled |-> 0, failed |-> FALSE]
    /\ calls = [c \in CallIds |-> IdleCall]
    /\ cache = [k \in ArchiveKeys |-> NoBytes]
    /\ net = [k \in ArchiveKeys |-> [downloads |-> 0, writes |-> 0]]
    /\ fetched = {}
    /\ encodingKeys = EmptyMap
    /\ encodingSizes = EmptyMap
    /\ rootEntries = EmptyMap
    /\ rootTypes = <<>>
    /\ cascLocale = Num(enUS)
    /\ locale = watchCascLocale(cascLocale)
    /\ watcher = Watching(cascLocale)
    /\ stageLog = SubSeq(LoadStages, 1, StageIndex("archives"))
    /\ outcome = [s \in Stages |->
                     IF StageIndex(s) < StageIndex("archives") THEN "ok" ELSE "none"]
    /\ requests = [s \in Stages |->
                      IF StageIndex(s) < StageIndex("archives") THEN 1 ELSE 0]
    /\ failedAt = Null
    /\ lookup = NoLookup
    /\ parsed = NoParse
    /\ OtherInit

QueueNext ==
    \/ loadArchives
    \/ \E ok \in BOOLEAN : handlerSettles(ok)
    \/ loadArchivesDone

\* loadArchives alone, every handler call in flight settling in the end.
QueueSpec == QueueInit /\ [][QueueNext]_vars /\ WF_vars(QueueNext)

\* The two parsers alone, called in any order on one client.
ParseInit == InitIn({"parsers"})
ParseNext ==
    \/ \E file \in ParserEncodingFiles : callParseEncodingFile(file)
    \/ \E file \in AllRootFiles : callParseRootFile(file)
ParseSpec == ParseInit /\ [][ParseNext]_vars

\* The config module alone: changes of the configuration, the screen, the
\* saver.
SaverStep ==
    \/ configWatcherRuns
    \/ doSave
    \/ \E i \in 1..MaxEdits, ok \in WriteOutcomes : writeFileDone(i, ok)
SettingsNext ==
    \/ \E key \in TextKeys \cup {ExtraKey}, text \in Texts : setConfig(key, text)
    \/ pushConfig
    \/ \E key \in DOMAIN defaultConfig \cup {ExtraKey} : resetToDefault(key)
    \/ resetAllToDefault
    \/ screenConfig
    \/ \E key \in TextKeys, text \in Texts : editConfigEdit(key, text)
    \/ pushConfigEdit
    \/ clickConfigReset
    \/ clickConfigApply
    \/ clickConfigDiscard
    \/ SaverStep
SettingsSpec == InitIn(SettingsEnvs) /\ [][SettingsNext]_vars
\* The same with writes that succeed and a saver that goes on.
FairSettingsSpec ==
    InitIn({"settings", "screen"}) /\ [][SettingsNext]_vars /\ WF_vars(SaverStep)
\* The config module with writes that may fail and a saver that goes on.
FairSaveSpec == SettingsSpec /\ WF_vars(SaverStep)

\* formatCDNKey alone, called on any key.
FormatInit == InitIn({"keys"})
FormatNext == \E key \in HexKeys : callFormatCDNKey(key)
FormatSpec == FormatInit /\ [][FormatNext]_vars

\* The listbox alone.
Keys == {"ArrowUp", "ArrowDown", "c", "a"}
ListboxNext ==
    \/ \E item \in ItemIds, ctrlKey \in BOOLEAN, shiftKey \in BOOLEAN :
           selectItem(item, ctrlKey, shiftKey)
    \/ \E key \in Keys, ctrlKey \in BOOLEAN, shiftKey \in BOOLEAN, bodyFocused \in BOOLEAN :
           handleKey(key, ctrlKey, shiftKey, bodyFocused)
    \/ \E direction \in {-1, 1}, scrollCount \in ItemIds : wheelMouse(direction, scrollCount)
ListboxSpec == InitIn({"listbox"}) /\ [][ListboxNext]_vars

(***************************************************************************)
(* Lookups before load() has completed.                                    *)
(***************************************************************************)
\* The errors getFile throws on a lookup miss.
LookupMisses ==
    {"fileDataID does not exist in root", "No root entry found for locale",
     "No encoding entry found"}
LookupBeforeReady == lookup.op /= "none" /\ ~lookup.ready

C2_Order ==
    <<"serverConfig", "resolveHost", "configs", "archives", "encoding",
      "root", "listfile">>

\* C2: the stages of load() start in the order server config, host
\* resolution, CDN and build config, archives, encoding table, root
\* manifest, listfile, each only after the one before it has returned
\* successfully.
C2_StagesInOrder ==
    /\ Len(stageLog) <= Len(C2_Order)
    /\ stageLog = SubSeq(C2_Order, 1, Len(stageLog))
    /\ \A i \in 1..(Len(stageLog) - 1) : outcome[stageLog[i]] = "ok"
    /\ pc \in Stages => Last(stageLog) = pc

\* C2, witness: load() has run all seven stages.
C2_Witness == pc = "loaded" /\ Len(stageLog) = 7

ConfigsSet == cdnConfig.set /\ buildConfig.set
Populated(table) == DOMAIN table /= {}

C4_StageFailureAborts ==
    \A s \in Stages :
        outcome[s] \notin {"none", "ok"} =>
            /\ pc = "failed"
            /\ failedAt = s
            /\ Last(stageLog) = s
            /\ requests[s] <= 1
            /\ \A t \in Stages :
                   StageIndex(t) > StageIndex(s) =>
                       requests[t] = 0 /\ outcome[t] = "none"

\* C4, witness: load() was rejected because the encoding table holds no
\* entry for the root key, after the stages before it had issued requests.
C4_Witness ==
    /\ pc = "failed" /\ failedAt = "root" /\ outcome["root"] = "noRootKey"
    /\ requests["encoding"] = 1 /\ requests["listfile"] = 0

(***************************************************************************)
(* Host resolution.                                                        *)
(***************************************************************************)
PingResolved(h) == pings[h].state = "resolved"

C6_ResolveCompletes ==
    (pc = "resolveHost" /\ step = "wait") ~> (pc /= "resolveHost")

(***************************************************************************)
(* Build discovery.                                                        *)
(***************************************************************************)
Fulfilled(p) == vc[p] \in {"region", "noRegion"}
FulfilledSeq == SelectSeq(ProductSeq, Fulfilled)

\* C7: init() issues the version config request of every product at once,
\* fills the build list only when all of them have settled, and completes
\* whatever failed: the list then holds one element per product whose
\* request succeeded, in product order (the product's entry for the region,
\* or undefined when its document has none), and none for a product whose
\* request failed.
C7_BuildList ==
    /\ pc = "init" =>
           /\ \A p \in Products : vc[p] /= "none"
           /\ builds = <<>>
           /\ (\A p \in Products : vc[p] /= "pending") => ENABLED initDone
    /\ pc \notin {"new", "init"} =>
           /\ \A p \in Products : vc[p] \notin {"none", "pending"}
           /\ Len(builds) = Len(FulfilledSeq)
           /\ \A i \in 1..Len(builds) :
                  builds[i] = IF vc[FulfilledSeq[i]] = "region"
                              THEN FulfilledSeq[i] ELSE Undefined
           /\ \A p \in Products : vc[p] = "rejected" => p \notin Range(builds)

\* C7, witness: init() has completed although the first product's request
\* failed, and the build list holds the second product alone.
C7_Witness ==
    /\ pc = "inited"
    /\ vc["wow"] = "rejected" /\ vc["wowt"] = "region"
    /\ builds = <<"wowt">>

(***************************************************************************)
(* The archive index cache.                                                *)
(***************************************************************************)
\* C8: once a call of getArchiveIndex(key) that downloaded has completed, a
\* later call for the same key is served from the cache file: it issues no
\* download, writes nothing and returns.
C8_ServedFromCache ==
    \A c \in CallIds :
        calls[c].afterFetch =>
            /\ ~calls[c].downloaded
            /\ calls[c].pc \in {"reading", "done"}
            /\ calls[c].pc = "done" =>
                   /\ calls[c].data = cache[cachePath(calls[c].key)]
                   /\ calls[c].entries = parseArchiveIndex(CDNBytes(calls[c].key))

\* C8, witness: a call made after a completed download of its key has
\* returned, and the key was downloaded once.
C8_Witness ==
    \E c \in CallIds :
        /\ calls[c].afterFetch /\ calls[c].pc = "done"
        /\ net[calls[c].key].downloads = 1

\* C9: the cache file of a key is written at most once and the index of a
\* key is downloaded at most once, whatever calls of getArchiveIndex are in
\* flight together.
C9_WriteOnce ==
    \A k \in ArchiveKeys : net[k].writes <= 1 /\ net[k].downloads <= 1

\* C10: a call that missed the cache parses the downloaded bytes only once
\* the cache file holds exactly those bytes, and it returns the entries a
\* cache hit on these bytes returns.
C10_WrittenBeforeParsed ==
    \A c \in CallIds :
        calls[c].pc = "done" =>
            /\ calls[c].entries = parseArchiveIndex(calls[c].cacheAtParse)
            /\ calls[c].downloaded =>
                   /\ calls[c].data = CDNBytes(calls[c].key)
                   /\ calls[c].cacheAtParse = calls[c].data
            /\ \A d \in CallIds :
                   (calls[d].pc = "done" /\ calls[d].data = calls[c].data) =>
                       calls[d].entries = calls[c].entries

\* C10, witness: one call has returned from a download and another from a
\* cache hit on the same key.
C10_Witness ==
    \E c, d \in CallIds :
        /\ calls[c].pc = "done" /\ calls[c].downloaded
        /\ calls[d].pc = "done" /\ ~calls[d].downloaded
        /\ calls[d].key = calls[c].key

\* C11: a call of getArchiveIndex whose cache read or cache write failed with
\* an I/O error, and whose download succeeded, does not fail: it returns the
\* index parsed from the downloaded bytes.
C11_CacheFailureRecovered ==
    \A c \in CallIds :
        ((calls[c].readFault \/ calls[c].writeFault) /\ calls[c].downloaded) =>
            /\ calls[c].pc /= "failed"
            /\ calls[c].pc = "done" =>
                   calls[c].entries = parseArchiveIndex(CDNBytes(calls[c].key))

\* A failed cache read alone is recovered: the call downloads, and unless
\* the write fails too it returns the index of the downloaded bytes.
CacheReadFailureRecovered ==
    \A c \in CallIds :
        (calls[c].readFault /\ ~calls[c].writeFault /\ calls[c].downloaded) =>
            /\ calls[c].pc \in {"writing", "done"}
            /\ calls[c].pc = "done" =>
                   calls[c].entries = parseArchiveIndex(CDNBytes(calls[c].key))

(***************************************************************************)
(* The fan-out of loadArchives.                                            *)
(***************************************************************************)
InFlight == queue.index - queue.settled

\* C12: while loadArchives runs, no more than 50 calls of getArchiveIndex
\* are in flight together, however long the archive list is, and unless a
\* call fails every key of the list is started and settles in the end.
C12_FanOutBounded ==
    /\ [](InFlight <= 50)
    /\ (pc = "archives" /\ step = "wait") ~>
           (queue.failed \/ (/\ queue.index = Len(cdnConfig.archives)
                             /\ queue.settled = Len(cdnConfig.archives)))

\* C12, witness: the list is longer than the limit, 50 calls are in flight
\* and a key is still waiting.
C12_Witness ==
    /\ InFlight = 50
    /\ Len(cdnConfig.archives) > 50
    /\ queue.index < Len(cdnConfig.archives)

QueueSettled ==
    /\ queue.index > 0
    /\ queue.settled = Len(cdnConfig.archives)

Qualifies(rootType) ==
    /\ BitAnd(rootType.localeFlags, ToInt32(locale)) /= 0
    /\ BitAnd(rootType.contentFlags, 128) = 0
\* The root type indexes of file id that serve the locale.
Qualifying(id) ==
    IF id \in DOMAIN rootEntries
    THEN {idx \in DOMAIN rootEntries[id] : Qualifies(rootTypes[idx + 1])}
    ELSE {}
\* The content key of the first of them.
SelectedKey(id) ==
    rootEntries[id][CHOOSE idx \in Qualifying(id) :
                        \A other \in Qualifying(id) : idx <= other]

\* C14: getFile(id) throws 'fileDataID does not exist in root' when id has
\* no root entry; else 'No root entry found for locale' when none of its
\* root types serves the locale; else 'No encoding entry found' when the
\* selected content key is not in the encoding table; else it returns the
\* encoding key the table maps that content key to.
C14_GetFileOutcomes ==
    lookup.op = "getFile" =>
        IF lookup.id \notin DOMAIN rootEntries
        THEN lookup.threw /\ lookup.value = "fileDataID does not exist in root"
        ELSE IF Qualifying(lookup.id) = {}
        THEN lookup.threw /\ lookup.value = "No root entry found for locale"
        ELSE IF SelectedKey(lookup.id) \notin DOMAIN encodingKeys
        THEN lookup.threw /\ lookup.value = "No encoding entry found"
        ELSE ~lookup.threw /\ lookup.value = encodingKeys[SelectedKey(lookup.id)]

\* C14, witness: file 1 has two root types that serve the locale, and
\* getFile returned the encoding key of the first one's content key.
C14_Witness ==
    /\ lookup.op = "getFile" /\ lookup.id = 1 /\ ~lookup.threw
    /\ Cardinality(Qualifying(1)) = 2
    /\ lookup.value = "e1"

\* C15: getValidRootEntries returns the files that have a root type serving
\* the locale, each once, and these are the files for which getFile fails
\* neither for want of a root entry nor for want of an entry for the locale.
C15_ValidRootEntries ==
    lookup.op = "getValidRootEntries" =>
        /\ Range(lookup.entries) = {id \in DOMAIN rootEntries : Qualifying(id) /= {}}
        /\ \A i, j \in DOMAIN lookup.entries :
               i /= j => lookup.entries[i] /= lookup.entries[j]
        /\ \A id \in FileDataIDs \cup DOMAIN rootEntries :
               id \in Range(lookup.entries) <=>
                   getFile(id).value \notin {"fileDataID does not exist in root",
                                             "No root entry found for locale"}

\* C15, witness: of three files in the root table, the call returned the
\* two that serve the locale, one of which has two root types doing so.
C15_Witness ==
    /\ lookup.op = "getValidRootEntries"
    /\ lookup.entries = <<1, 3>>
    /\ Cardinality(Qualifying(1)) = 2
    /\ 2 \in DOMAIN rootEntries

(***************************************************************************)
(* The locale.                                                             *)
(***************************************************************************)
\* The value, or enUS when it is not a number in the sense of isNaN, the
\* test the constructor and its log message use.
OrEnUS(value) == IF value.type \in {"NaN", "undefined"} THEN Num(enUS) ELSE value

EntriesOfPages ==
    UNION {Range(parsed.encoding.pages[i]) : i \in DOMAIN parsed.encoding.pages}
ParsedEncoding == parsed.op = "encoding" /\ ~parsed.threw

\* C17: after parseEncodingFile on a table whose pages hold entries, every
\* entry has its row: the CKey maps to the first of its EKeys and to its
\* size; no alternate EKey is recorded; and the rows added to the tables
\* are those of the distinct CKeys of the pages.
C17_OneRowPerEntry ==
    ParsedEncoding =>
        /\ \A entry \in EntriesOfPages :
               /\ entry.cKey \in DOMAIN encodingKeys
               /\ entry.cKey \in DOMAIN encodingSizes
               /\ encodingKeys[entry.cKey] = entry.eKeys[1]
               /\ encodingSizes[entry.cKey] = entry.size
        /\ \A entry \in EntriesOfPages :
               \A k \in 2..entry.keysCount :
                   entry.eKeys[k] \notin Range(encodingKeys)
        /\ DOMAIN encodingKeys =
               DOMAIN parsed.keys \cup {entry.cKey : entry \in EntriesOfPages}
        /\ DOMAIN encodingSizes = DOMAIN encodingKeys

\* What holds of every call: each row is that of an entry of the pages or
\* was there before, and the first entry of every page has its row.
EncodingRowsFromPages ==
    ParsedEncoding =>
        /\ \A cKey \in DOMAIN encodingKeys \ DOMAIN parsed.keys :
               \E entry \in EntriesOfPages :
                   /\ entry.cKey = cKey
                   /\ encodingKeys[cKey] = entry.eKeys[1]
                   /\ encodingSizes[cKey] = entry.size
        /\ \A i \in DOMAIN parsed.encoding.pages :
               \A j \in DOMAIN parsed.encoding.pages[i] :
                   j = 1 => parsed.encoding.pages[i][j].cKey \in DOMAIN encodingKeys

\* C18: parseEncodingFile on a file whose magic is not the encoding magic
\* throws, and the encoding-key and encoding-size tables are what they were
\* before the call.
C18_BadMagicLeavesTables ==
    (parsed.op = "encoding" /\ ~parsed.encoding.magicOK) =>
        /\ parsed.threw
        /\ encodingKeys = parsed.keys
        /\ encodingSizes = parsed.sizes

\* A file with a bad magic and an entry was parsed on tables that an
\* earlier call had filled.
C18_Witness ==
    /\ parsed.op = "encoding"
    /\ ~parsed.encoding.magicOK
    /\ parsed.encoding.pages /= << >>
    /\ parsed.threw
    /\ DOMAIN parsed.keys = {"c1", "c2", "c3"}
    /\ encodingKeys["c1"] = "e1"

(***************************************************************************)
(* The root table.                                                         *)
(***************************************************************************)
ParsedRoot == parsed.op = "root" /\ ~parsed.threw
\* The RootType of block b of the root file just parsed.
BlockType(b) ==
    [contentFlags |-> parsed.root.blocks[b].contentFlags,
     localeFlags |-> parsed.root.blocks[b].localeFlags]
\* The 0-based index in the RootType list of the type of block b: the
\* length of the list when the block's records were read.
BlockIndex(b) == Len(parsed.types) + b - 1
\* The fileDataIDs of the records of block b.
BlockIDs(b) == fileDataIDs(parsed.root.blocks[b].deltas, 1, 0)

\* C19: after parseRootFile, in both layouts, every block has appended one
\* RootType, its own, at the index the list's length had when the block
\* began; every record of the block is stored under that index; and every
\* index used as a key in a RootEntry is an index of the RootType list.
C19_RecordsIndexed ==
    /\ ParsedRoot =>
           /\ Len(rootTypes) = Len(parsed.types) + Len(parsed.root.blocks)
           /\ SubSeq(rootTypes, 1, Len(parsed.types)) = parsed.types
           /\ \A b \in DOMAIN parsed.root.blocks :
                  /\ rootTypes[BlockIndex(b) + 1] = BlockType(b)
                  /\ \A i \in DOMAIN BlockIDs(b) :
                         /\ BlockIDs(b)[i] \in DOMAIN rootEntries
                         /\ BlockIndex(b) \in DOMAIN rootEntries[BlockIDs(b)[i]]
                         /\ rootEntries[BlockIDs(b)[i]][BlockIndex(b)]
                                = parsed.root.blocks[b].keys[i]
           \* nothing else was stored
           /\ \A id \in DOMAIN rootEntries :
                  \A idx \in DOMAIN rootEntries[id] :
                      \/ id \in DOMAIN parsed.entries
                            /\ idx \in DOMAIN parsed.entries[id]
                      \/ \E b \in DOMAIN parsed.root.blocks :
                            /\ idx = BlockIndex(b)
                            /\ id \in Range(BlockIDs(b))
    /\ \A id \in DOMAIN rootEntries :
           \A idx \in DOMAIN rootEntries[id] :
               idx >= 0 /\ idx + 1 \in DOMAIN rootTypes

\* A legacy file of two blocks was parsed after a modern one of three: the
\* two records of its first block are stored under index 3.
C19_Witness ==
    /\ ParsedRoot
    /\ ~parsed.root.modern
    /\ Len(parsed.types) = 3
    /\ Len(rootTypes) = 5
    /\ parsed.root.blocks[1].numRecords = 2
    /\ rootEntries[1][3] = "c1"
    /\ rootEntries[2][3] = "c1"
    /\ rootTypes[4] = [contentFlags |-> LowViolence, localeFlags |-> enUS]

\* Whether block b of the modern root file just parsed has the
\* no-name-hash bit.
HasNoNameHash(b) == BitAnd(parsed.root.blocks[b].contentFlags, NoNameHash) /= 0
ParsedModernRoot == ParsedRoot /\ parsed.root.modern

\* C20 as stated: a modern block with the no-name-hash bit, in a file whose
\* totalFileCount equals its namedFileCount, ends where its last content
\* key ends.
C20_NoHashesWhenAllNamed ==
    (ParsedModernRoot /\ parsed.root.totalFileCount = parsed.root.namedFileCount) =>
        \A b \in DOMAIN parsed.trace :
            HasNoNameHash(b) => parsed.trace[b].end = parsed.trace[b].afterKeys

\* C20: a modern block with the no-name-hash bit, in a file whose
\* totalFileCount equals its namedFileCount, ends 8 bytes per record after
\* its last content key; a modern block ends where its last content key
\* ends exactly when it has the bit and the two counts differ.
C20_HashesUnlessNameless ==
    ParsedModernRoot =>
        /\ Len(parsed.trace) = Len(parsed.root.blocks)
        /\ \A b \in DOMAIN parsed.trace :
               /\ parsed.trace[b].afterKeys =
                      parsed.trace[b].start + 12 + (4 + 16) * parsed.root.blocks[b].numRecords
               /\ parsed.trace[b].end =
                      IF /\ HasNoNameHash(b)
                         /\ parsed.root.totalFileCount /= parsed.root.namedFileCount
                      THEN parsed.trace[b].afterKeys
                      ELSE parsed.trace[b].afterKeys
                               + 8 * parsed.root.blocks[b].numRecords

\* A modern file with equal counts was parsed: its first block, with the
\* bit and two records, starts at 12, has its keys end at 64 and ends at 80.
C20_Witness ==
    /\ ParsedModernRoot
    /\ parsed.root.totalFileCount = parsed.root.namedFileCount
    /\ Len(parsed.trace) = 2
    /\ HasNoNameHash(1)
    /\ parsed.trace[1] = [start |-> 12, afterKeys |-> 64, end |-> 80]

(***************************************************************************)
(* An empty root manifest.                                                 *)
(***************************************************************************)
\* The distinct fileDataIDs of the blocks of the root file just parsed.
ParsedIDs == UNION {Range(BlockIDs(b)) : b \in DOMAIN parsed.root.blocks}

\* C21: parseRootFile returns the number of distinct fileDataIDs parsed, and
\* a load whose root manifest yields none fails at the root stage: it never
\* goes on to the listfile and the client does not become ready.
C21_EmptyRootFatal ==
    /\ (ParsedRoot /\ parsed.entries = EmptyMap) =>
           parsed.size = Cardinality(ParsedIDs)
    /\ (outcome["root"] /= "none" /\ rootEntries = EmptyMap) =>
           pc = "failed" /\ failedAt = "root"

\* What the code does keep: the value returned is the size of the root
\* table, the fileDataIDs of this call and of the calls before it.
RootSizeReturned ==
    ParsedRoot =>
        /\ parsed.size = Cardinality(DOMAIN rootEntries)
        /\ DOMAIN rootEntries = DOMAIN parsed.entries \cup ParsedIDs

(***************************************************************************)
(* CDN keys.                                                               *)
(***************************************************************************)
\* C22: for every key of length 4 or more, formatCDNKey(key) is the first
\* two characters, '/', the next two characters, '/', and the key; the
\* result ends with the whole key, unmodified.
C22_FormatCDNKey ==
    (formatted.op = "formatCDNKey" /\ Len(formatted.key) >= 4) =>
        LET key == formatted.key
            result == formatted.result
        IN  /\ Len(result) = Len(key) + 6
            /\ result[1] = key[1] /\ result[2] = key[2] /\ result[3] = "/"
            /\ result[4] = key[3] /\ result[5] = key[4] /\ result[6] = "/"
            /\ \A i \in 1..Len(key) : result[6 + i] = key[i]

\* 0fa0f was formatted as 0f/a0/0fa0f.
C22_Witness ==
    /\ formatted.op = "formatCDNKey"
    /\ formatted.key = <<"0", "f", "a", "0", "f">>
    /\ formatted.result =
           <<"0", "f", "/", "a", "0", "/", "0", "f", "a", "0", "f">>

(***************************************************************************)
(* The pages of the encoding table.                                        *)
(***************************************************************************)
\* The end of page i (counted from 0): pageStart_i + cKeyPageSize.
PageEnd(i) == pageStart(parsed.encoding, i) + cKeyPageSize(parsed.encoding)

\* C23: while parsing page i, parseEncodingFile reads every entry that
\* precedes the page's first zero keyCount or the page's end, and reads no
\* entry that starts before the page or at or beyond pageStart_i +
\* cKeyPageSize.
C23_ReadsWithinPage ==
    ParsedEncoding =>
        /\ \A p \in DOMAIN parsed.encoding.pages :
               \A j \in DOMAIN parsed.encoding.pages[p] :
                   \E r \in DOMAIN parsed.reads :
                       /\ parsed.reads[r].page = p - 1
                       /\ parsed.reads[r].offset = EntryStart(parsed.encoding, p, j)
        /\ \A r \in DOMAIN parsed.reads :
               /\ parsed.reads[r].offset >= pageStart(parsed.encoding, parsed.reads[r].page)
               /\ parsed.reads[r].offset < PageEnd(parsed.reads[r].page)

\* A page was left before its third entry; the loop over a full page went
\* on into the next page.
PageCutShort ==
    /\ ParsedEncoding
    /\ parsed.encoding = ThreeEntryEncodingFile
    /\ Len(parsed.reads) = 1
PageOverrun ==
    /\ ParsedEncoding
    /\ parsed.encoding = FullPageEncodingFile(1000)
    /\ \E r \in DOMAIN parsed.reads :
           parsed.reads[r].page = 0 /\ parsed.reads[r].offset = PageEnd(0)

(***************************************************************************)
(* Saving the configuration.                                               *)
(***************************************************************************)
\* The saver is idle and, if the configuration was ever changed, the file
\* holds what doSave computes from the configuration as it is.
SaverSettled ==
    /\ ~saver.isSaving /\ ~saver.isQueued
    /\ ~saver.watcherPending
    /\ saver.immediates = 0
    /\ saver.writes = <<>>
    /\ saver.changed => saver.disk = configSave(config, heap)

\* C24: whatever the changes of the configuration, also during a write,
\* once they stop and with every write succeeding, the file is written
\* from the final configuration and the saver is idle again (isSaving and
\* isQueued false).
C24_EventuallySaved == <>[]SaverSettled

\* The saver is idle after a change that came during a write: the queued
\* save was carried out and the file holds the final configuration.
C24_Witness ==
    /\ SaverSettled
    /\ saver.changed
    /\ saver.resaved
    /\ ui.edits = MaxEdits

\* C30: at most one write of the config file is in flight at any time.
C30_OneWriteInFlight ==
    /\ Len(saver.writes) <= 1
    /\ saver.immediates + Len(saver.writes) <= 1
    /\ (saver.immediates + Len(saver.writes) = 1 /\ ~saver.failed) => saver.isSaving

\* A save was requested while a write is in flight: it is queued.
C30_Witness ==
    /\ Len(saver.writes) = 1
    /\ saver.isSaving /\ saver.isQueued
    /\ saver.writes[1].out /= configSave(config, heap)

\* C25: a write of doSave holds no key whose value is that of its default,
\* and holds every other key of the configuration with its value.
C25_OnlyChangedValuesWritten ==
    \A i \in DOMAIN saver.writes :
        LET w == saver.writes[i]
        IN  \A key \in DOMAIN w.from :
                IF key \in DOMAIN w.defaults /\ w.from[key] = w.defaults[key]
                THEN key \notin DOMAIN w.out
                ELSE key \in DOMAIN w.out /\ w.out[key] = w.from[key]

\* What doSave does keep: every text that is its default is left out, every
\* other text and every key without default is written with its value, and
\* nothing is written that is not in the configuration.
TextsWrittenUnlessDefault ==
    \A i \in DOMAIN saver.writes :
        LET w == saver.writes[i]
        IN  /\ \A key \in DOMAIN w.from :
                   w.from[key].t = "string" =>
                       IF key \in DOMAIN w.defaults /\ w.from[key] = w.defaults[key]
                       THEN key \notin DOMAIN w.out
                       ELSE key \in DOMAIN w.out /\ w.out[key] = w.from[key]
            /\ \A key \in DOMAIN w.out :
                   key \in DOMAIN w.from /\ w.out[key] = w.from[key]

(***************************************************************************)
(* The configuration screen.                                               *)
(***************************************************************************)
\* A text that is empty or does not start with 'http'.
NoURL(str) == str = NoText \/ Len(str) < 4 \/ SubSeq(str, 1, 4) /= HttpURL
\* An edited configuration that 'click-config-apply' is to refuse.
Refused(cfg) ==
    \/ cfg["exportDirectory"].str = NoText
    \/ cfg["listfileURL"].str = NoText
    \/ NoURL(cfg["tactKeysURL"].str)
    \/ NoURL(cfg["dbdURL"].str)

\* C26: 'click-config-apply' on an edited configuration with an empty
\* exportDirectory, an empty listfileURL, or a tactKeysURL or dbdURL that
\* is empty or does not start with 'http' leaves State.config and the
\* screen as they are and shows an error toast; otherwise the edited
\* configuration becomes State.config.
C26_ApplyChecked ==
    [][ui'.applies = ui.applies + 1 =>
          IF Refused(configEdit)
          THEN /\ config' = config
               /\ heap' = heap
               /\ ui'.screen = ui.screen
               /\ ui'.toast = "error"
          ELSE /\ config' = configEdit
               /\ ui'.toast = "success"]_vars

\* An apply was refused for a tactKeysURL that is no URL, the other three
\* settings passing their checks.
C26_Witness ==
    /\ ui.last = "apply"
    /\ ui.toast = "error"
    /\ ui.screen = "config"
    /\ configEdit["exportDirectory"].str = SomeText
    /\ configEdit["listfileURL"].str = HttpURL
    /\ configEdit["tactKeysURL"].str = SomeText
    /\ configEdit["dbdURL"].str = HttpURL
    /\ config["tactKeysURL"].str = HttpURL

\* C27: after 'click-config-discard', every value of State.config is what
\* it was when the screen was opened, whatever was done to
\* State.configEdit in between.
C27_DiscardRestores ==
    ui.last = "discard" => Values(config, heap) = ui.opened

\* What discarding does keep: State.config holds the same texts and refers
\* to the same arrays as when the screen was opened.
DiscardKeepsTexts ==
    ui.last = "discard" =>
        /\ DOMAIN config = DOMAIN ui.opened
        /\ \A key \in DOMAIN config :
               /\ config[key].t = ui.opened[key].t
               /\ config[key].str = ui.opened[key].str

(***************************************************************************)
(* C28                                                                     *)
(***************************************************************************)
\* C28: in a listbox with the single prop set that was given a selection of
\* at most one item, the selection holds at most one item after any clicks,
\* with any modifier keys, and any arrow keys.
C28_SingleSelection == listbox.single => Len(listbox.selection) <= 1
\* Shift and ArrowDown in a single listbox that had an item selected: the
\* next item alone is selected.
C28_Witness ==
    /\ listbox.single
    /\ listbox.last.op = "handleKey"
    /\ listbox.last.key = "ArrowDown"
    /\ listbox.last.shiftKey
    /\ listbox.last.before = <<1>>
    /\ listbox.selection = <<2>>

(***************************************************************************)
(* C29                                                                     *)
(***************************************************************************)
\* C29: in a listbox without the single prop, a click on an item with neither
\* ctrl nor shift held leaves the selection equal to that one item, whatever
\* it was before, and lastSelectItem equal to that item.
C29_PlainClickSelectsOne ==
    (/\ ~listbox.single
     /\ listbox.last.op = "selectItem"
     /\ ~listbox.last.ctrlKey
     /\ ~listbox.last.shiftKey) =>
        /\ listbox.selection = <<listbox.last.item>>
        /\ listbox.lastSelectItem = listbox.last.item
\* A plain click on an item that was selected with another one.
C29_Witness ==
    /\ ~listbox.single
    /\ listbox.last.op = "selectItem"
    /\ ~listbox.last.ctrlKey
    /\ ~listbox.last.shiftKey
    /\ listbox.last.item = 2
    /\ listbox.last.before = <<1, 2>>
    /\ listbox.selection = <<2>>

(***************************************************************************)
(* C31                                                                     *)
(***************************************************************************)
\* C31: a failed write of the config file does not stop later saves: a
\* change of the configuration made after a write of doSave has failed
\* leads to a new write.
C31_SavesAfterFailedWrite ==
    (saver.changedSince /\ saver.watcherPending) ~> (saver.writes /= <<>>)
\* After a failed write isSaving is never cleared and nothing is written
\* again.
StuckAfterFailedWrite ==
    saver.failed => (saver.isSaving /\ saver.writes = <<>> /\ saver.immediates = 0)

(***************************************************************************)
(* C32                                                                     *)
(***************************************************************************)
\* C32: after init() has completed, every element of the build list is the
\* version entry of a product for the client's region; a product whose
\* version config was fetched but has no entry for the region contributes
\* no element, so that load(buildIndex) never works on an undefined build.
C32_BuildsDefined ==
    /\ pc \notin {"new", "init"} =>
           /\ \A i \in DOMAIN builds :
                  builds[i] \in Products /\ vc[builds[i]] = "region"
           /\ Len(builds) = Cardinality({p \in Products : vc[p] = "region"})
    /\ pc \notin {"new", "init", "inited"} => build \in Products

(***************************************************************************)
(* C33                                                                     *)
(***************************************************************************)
\* C33: in a listbox without the single prop that was given a selection
\* without repeats, the selection never holds the same item twice, after
\* any clicks (plain, with ctrl, with shift) and arrow keys (with or without
\* shift).
C33_NoItemTwice ==
    (~listbox.single /\ ~listbox.givenRepeats) => NoRepeats(listbox.selection)
\* A click, whatever the modifier keys, adds no repeat.
ClickAddsNoRepeat ==
    (listbox.last.op = "selectItem" /\ NoRepeats(listbox.last.before)) =>
        NoRepeats(listbox.selection)

====
